---- MODULE Spec2Model ----
(***************************************************************************)
(* A model of KoopaENGINE3.0: the photonic particle engine and the         *)
(* MarioForeverEngine of src/debug.py (physics, collision resolution,      *)
(* power-tier state machine, frame loop).                                  *)
(*                                                                         *)
(* Numbers.  The engine computes in floats; every constant of the source   *)
(* is a multiple of 0.05.  The model keeps positions, velocities and the   *)
(* physics constants as integers in hundredths (0.45 is 45, 100.0 is       *)
(* 10000), so sums and comparisons are exact; the two multiplications by   *)
(* (1 - friction) round toward zero to a hundredth.  pygame.Rect keeps     *)
(* integers: a float coordinate is truncated toward zero (Trunc).          *)
(* Counters (life, invincible, lives, score, coins) are plain integers.    *)
(***************************************************************************)
EXTENDS Integers, Sequences, FiniteSets, TLC

VARIABLES
    particles,            \* PhotonicGaussianEngine.particles, run-length encoded
    generation,           \* PhotonicGaussianEngine.evolution_params['generation']
    state,                \* MarioForeverEngine.state
    lives,
    coins,
    score,
    time,
    paused,
    mario,                \* MarioForeverEngine.mario
    current_level_data,   \* MarioForeverEngine.current_level_data
    current_world,        \* the world and the level the world map points at
    current_level,
    pc,                   \* position in MarioForeverEngine.run
    keys,                 \* logical keys held (pygame.key.get_pressed)
    call,                 \* the operation that ran last, with its arguments
    budget                \* calls, frames and key events still allowed by the bounds

vars == <<particles, generation, state, lives, coins, score, time, paused,
          mario, current_level_data, current_world, current_level, pc, keys,
          call, budget>>

(***************************************************************************)
(* Bounds of the model                                                     *)
(***************************************************************************)
MaxBursts == 2
MaxEvolves == 2

(***************************************************************************)
(* Arithmetic helpers                                                      *)
(***************************************************************************)
Min(a, b) == IF a <= b THEN a ELSE b

Max(a, b) == IF a >= b THEN a ELSE b

Abs(a) == IF a >= 0 THEN a ELSE -a

\* n pixels (or pixels per frame) in hundredths
Px(n) == n * 100

\* int(v): a float coordinate handed to pygame.Rect is truncated toward zero
Trunc(v) == IF v >= 0 THEN v \div 100 ELSE -((-v) \div 100)

(***************************************************************************)
(* PhotonicGaussianEngine                                                  *)
(***************************************************************************)
photon_limit == 10000

PARTICLE_LIFE == 255

PARTICLE_DECAY == 3

PARTICLE_GRAVITY == 20

\* A run [n, life, pos, vel] stands for n consecutive particles of the list
\* that hold the same life, position and velocity (one burst's particles that
\* drew the same angle and speed).
\* The particles of the runs from i on, summed by halves.
RECURSIVE CountFrom(_, _)
CountFrom(ps, i) ==
    IF i > Len(ps) THEN 0
    ELSE IF i = Len(ps) THEN ps[i].n
    ELSE LET mid == (i + Len(ps)) \div 2
         IN  CountFrom(SubSeq(ps, i, mid), 1) + CountFrom(ps, mid + 1)

\* len(self.particles)
NumParticles(ps) == CountFrom(ps, 1)

\* the range of the emission loop: min(count, photon_limit - len(particles))
BurstSizeUnclamped(count, n) == count

BurstSize(count, n) == Min(count, photon_limit - n)

\* emit_photon_burst(x, y, count, color, spread) with the drawn velocity v
emit_photon_burst_evicting(ps, pos, count, v) ==
    LET all == IF count > 0
               THEN Append(ps, [n |-> count, life |-> PARTICLE_LIFE, pos |-> pos, vel |-> v])
               ELSE ps
    IN  IF CountFrom(all, 1) > photon_limit THEN Tail(all) ELSE all

emit_photon_burst(ps, pos, count, v) ==
    LET k == BurstSize(count, NumParticles(ps))
    IN  IF k > 0
        THEN Append(ps, [n |-> k, life |-> PARTICLE_LIFE, pos |-> pos, vel |-> v])
        ELSE ps

\* one particle's update in render_level: move, gravity, decay
AgeParticleNoDecay(p) ==
    [p EXCEPT !.pos = <<p.pos[1] + p.vel[1], p.pos[2] + p.vel[2]>>,
              !.vel = <<p.vel[1], p.vel[2] + PARTICLE_GRAVITY>>]

\* whether the pass removes the particle
ExpiredNever(p) == FALSE

Expired(p) == p.life <= 0

\* The particle loop of render_level over a copy of the list.  The expired
\* particles are the oldest, a prefix of the list, so list.remove(particle)
\* finds each one first, by identity.
RECURSIVE PassFrom(_, _)
PassFrom(ps, i) ==
    LET
        AgeParticle(p) ==
            [p EXCEPT !.pos = <<p.pos[1] + p.vel[1], p.pos[2] + p.vel[2]>>,
                      !.vel = <<p.vel[1], p.vel[2] + PARTICLE_GRAVITY>>,
                      !.life = p.life - PARTICLE_DECAY]
    IN
    IF i > Len(ps) THEN <<>>
    ELSE LET q == AgeParticle(ps[i])
         IN  IF Expired(q) THEN PassFrom(ps, i + 1)
             ELSE <<q>> \o PassFrom(ps, i + 1)

UpdateParticles(ps) == PassFrom(ps, 1)

(***************************************************************************)
(* MarioForeverEngine: construction                                        *)
(***************************************************************************)
NoExit == [pos |-> <<0, 0>>, type |-> "none"]

\* current_level_data = None
NoLevel ==
    [loaded |-> FALSE, platforms |-> <<>>, blocks |-> <<>>, enemies |-> <<>>,
     pipes |-> <<>>, exit |-> NoExit]

NewMario ==
    [pos |-> <<Px(100), Px(400)>>, vel |-> <<0, 0>>, power |-> "SMALL",
     on_ground |-> FALSE, facing_right |-> TRUE, invincible |-> 0,
     can_shoot |-> TRUE, shoot_cooldown |-> 0, running |-> FALSE,
     jumping |-> FALSE, jump_held |-> FALSE, ducking |-> FALSE,
     in_pipe |-> FALSE]

NoCall == [name |-> "init", count |-> 0, before |-> 0]

\* MarioForeverEngine.__init__ and PhotonicGaussianEngine.__init__
Constructed ==
    /\ particles = <<>>
    /\ generation = 0
    /\ state = "WORLD_MAP"
    /\ lives = 5
    /\ coins = 0
    /\ score = 0
    /\ time = 400
    /\ paused = FALSE
    /\ mario = NewMario
    /\ current_level_data = NoLevel
    /\ current_world = 1
    /\ current_level = 1
    /\ keys = {}
    /\ call = NoCall

(***************************************************************************)
(* pygame.Rect: integer pixels                                             *)
(***************************************************************************)
Rect(x, y, w, h) == [x |-> x, y |-> y, w |-> w, h |-> h]

Right(r) == r.x + r.w

Bottom(r) == r.y + r.h

CenterY(r) == r.y + (r.h \div 2)

\* Rect.colliderect: the rectangles overlap; touching edges do not count
colliderect_touching(a, b) ==
    /\ a.x <= b.x + b.w
    /\ b.x <= a.x + a.w
    /\ a.y <= b.y + b.h
    /\ b.y <= a.y + a.h

colliderect(a, b) ==
    /\ a.x < b.x + b.w
    /\ b.x < a.x + a.w
    /\ a.y < b.y + b.h
    /\ b.y < a.y + a.h

(***************************************************************************)
(* Physics constants, in hundredths                                        *)
(***************************************************************************)
MARIO_WALK_SPEED == 350

MARIO_RUN_SPEED == 650

MARIO_ACCELERATION == 30

MARIO_FRICTION == 15

MARIO_AIR_FRICTION == 5

MARIO_JUMP_POWER == -1150

MARIO_RUN_JUMP_POWER == -1300

MARIO_GRAVITY == 45

MARIO_MAX_FALL == 1200

MARIO_JUMP_HOLD_GRAVITY == 25

\* v * (1 - f), f in hundredths, rounded toward zero
Damp(v, f) ==
    IF v >= 0 THEN (v * (100 - f)) \div 100 ELSE -(((-v) * (100 - f)) \div 100)

(***************************************************************************)
(* The engine as one value: e.mario, e.lives, e.coins, e.score, e.time,    *)
(* e.state, e.paused, e.level (current_level_data), e.particles, and       *)
(* e.log, the calls of damage_mario, hit_block and reset_level and the     *)
(* enemy removals made so far by the operation under way.                  *)
(* rnd holds what the random source yields during the operation: rnd.vel   *)
(* the velocity a burst's particles draw, rnd.level the layout             *)
(* generate_level returns.                                                 *)
(***************************************************************************)
EmitNothing(e, pos, count, rnd) == e

Emit(e, pos, count, rnd) ==
    [e EXCEPT !.particles = emit_photon_burst(e.particles, pos, count, rnd.vel)]

get_mario_rect(m) ==
    LET
        \* get_mario_rect
        MarioHeight ==
            IF m.power = "SMALL" THEN 30 ELSE IF m.ducking THEN 30 ELSE 40
    IN
    Rect(Trunc(m.pos[1]), Trunc(m.pos[2]), 24, MarioHeight)

\* reset_level
reset_level(e, rnd) ==
    [e EXCEPT !.mario.pos = <<Px(100), Px(400)>>,
              !.mario.vel = <<0, 0>>,
              !.mario.invincible = 0,
              !.time = 400,
              !.level = rnd.level,
              !.log = Append(@, [op |-> "reset_level"])]

POST_DAMAGE_INVINCIBLE == 120

STAR_INVINCIBLE == 600

\* the power-tier branch of damage_mario
DemoteKeepingTimer(e, rnd) ==
    Emit([e EXCEPT !.mario.power = "SMALL"], e.mario.pos, 20, rnd)

Demote(e, rnd) ==
    Emit([e EXCEPT !.mario.power = "SMALL",
                   !.mario.invincible = POST_DAMAGE_INVINCIBLE],
         e.mario.pos, 20, rnd)

\* the life-loss branch of damage_mario
LoseLifeAlwaysResetting(e, rnd) == reset_level([e EXCEPT !.lives = @ - 1], rnd)

LoseLife(e, rnd) ==
    LET e1 == [e EXCEPT !.lives = @ - 1]
    IN  IF e1.lives <= 0 THEN [e1 EXCEPT !.state = "GAME_OVER"]
        ELSE reset_level(e1, rnd)

\* damage_mario
damage_mario(e, rnd) ==
    LET entry == [op |-> "damage_mario", power |-> e.mario.power,
                  invincible |-> e.mario.invincible, lives |-> e.lives]
        e0 == [e EXCEPT !.log = Append(@, entry)]
    IN  IF e.mario.invincible > 0 THEN e0
        ELSE IF e.mario.power # "SMALL" THEN Demote(e0, rnd)
        ELSE LoseLife(e0, rnd)

\* hit_block(block), block the i-th of the level's blocks
hit_block_ignored(e, i, rnd) == e

hit_block(e, i, rnd) ==
    LET
        CenterX(r) == r.x + (r.w \div 2)
    IN
    LET b == e.level.blocks[i]
        top == <<Px(CenterX(b.rect)), Px(b.rect.y)>>
        mid == <<Px(CenterX(b.rect)), Px(CenterY(b.rect))>>
        e0 == [e EXCEPT !.log = Append(@, [op |-> "hit_block", block |-> i,
                                            was_hit |-> b.hit, type |-> b.type,
                                            contains |-> b.contains])]
        struck == [e0 EXCEPT !.level.blocks[i].hit = TRUE]
    IN  IF b.type = "question" /\ ~b.hit THEN
            CASE b.contains = "coin" ->
                   Emit([struck EXCEPT !.coins = @ + 1, !.score = @ + 200], top, 10, rnd)
              [] b.contains = "mushroom" ->
                   Emit(IF e.mario.power = "SMALL"
                        THEN [struck EXCEPT !.mario.power = "SUPER"]
                        ELSE [struck EXCEPT !.score = @ + 1000], top, 15, rnd)
              [] b.contains = "flower" ->
                   Emit([struck EXCEPT !.mario.power = "FIRE"], top, 15, rnd)
              [] b.contains = "star" ->
                   Emit([struck EXCEPT !.mario.invincible = STAR_INVINCIBLE], top, 20, rnd)
              [] OTHER -> struck
        ELSE IF b.type = "brick" THEN
            IF e.mario.power # "SMALL"
            THEN Emit([struck EXCEPT !.score = @ + 50], mid, 25, rnd)
            ELSE e0
        ELSE e0

\* check_collisions, the platform loop from the i-th platform on; r is the
\* rectangle computed when check_collisions began
RECURSIVE PlatformLoop(_, _, _)
PlatformLoop(e, r, i) ==
    IF i > Len(e.level.platforms) THEN e
    ELSE LET p == e.level.platforms[i]
             v == e.mario.vel
             e1 == IF ~(p.collision /\ colliderect(r, p.rect)) THEN e
                   ELSE IF v[2] > 0 /\ Bottom(r) > p.rect.y THEN
                       [e EXCEPT !.mario.pos[2] = Px(p.rect.y - r.h),
                                 !.mario.vel[2] = 0,
                                 !.mario.on_ground = TRUE]
                   ELSE IF v[2] < 0 /\ r.y < Bottom(p.rect) THEN
                       [e EXCEPT !.mario.pos[2] = Px(Bottom(p.rect)),
                                 !.mario.vel[2] = 0]
                   ELSE IF v[1] > 0 /\ Right(r) > p.rect.x THEN
                       [e EXCEPT !.mario.pos[1] = Px(p.rect.x - r.w),
                                 !.mario.vel[1] = 0]
                   ELSE IF v[1] < 0 /\ r.x < Right(p.rect) THEN
                       [e EXCEPT !.mario.pos[1] = Px(Right(p.rect)),
                                 !.mario.vel[1] = 0]
                   ELSE e
         IN  PlatformLoop(e1, r, i + 1)

BLOCK_BOUNCE == 100

\* check_collisions, the block loop from the i-th block on
RECURSIVE BlockLoopStrikingAgain(_, _, _, _)
BlockLoopStrikingAgain(e, r, i, rnd) ==
    IF i > Len(e.level.blocks) THEN e
    ELSE LET b == e.level.blocks[i]
             e1 == IF colliderect(r, b.rect)
                      /\ e.mario.vel[2] < 0 /\ r.y < Bottom(b.rect)
                   THEN [hit_block(e, i, rnd) EXCEPT
                            !.mario.pos[2] = Px(Bottom(b.rect)),
                            !.mario.vel[2] = BLOCK_BOUNCE]
                   ELSE e
         IN  BlockLoopStrikingAgain(e1, r, i + 1, rnd)

RECURSIVE BlockLoop(_, _, _, _)
BlockLoop(e, r, i, rnd) ==
    IF i > Len(e.level.blocks) THEN e
    ELSE LET b == e.level.blocks[i]
             e1 == IF ~b.hit /\ colliderect(r, b.rect)
                      /\ e.mario.vel[2] < 0 /\ r.y < Bottom(b.rect)
                   THEN [hit_block(e, i, rnd) EXCEPT
                            !.mario.pos[2] = Px(Bottom(b.rect)),
                            !.mario.vel[2] = BLOCK_BOUNCE]
                   ELSE e
         IN  BlockLoop(e1, r, i + 1, rnd)

\* list.remove(x): the list without its first element equal to x
RECURSIVE RemoveFirst(_, _)
RemoveFirst(s, x) ==
    IF s = <<>> THEN <<>>
    ELSE IF Head(s) = x THEN Tail(s)
    ELSE <<Head(s)>> \o RemoveFirst(Tail(s), x)

STOMP_BOUNCE == -800

ENEMY_SCORE == 100

EnemyRect(en) == Rect(en.pos[1], en.pos[2], 30, 30)

\* the stomp test of check_collisions
IsStomp(m, r, er) == m.vel[2] > 0 /\ Bottom(r) < CenterY(er)

\* check_collisions, the enemy loop.  The for statement walks the list object
\* it started on by index: lst is that object, i the next index (from 1), and
\* same tells whether it still is the engine's list (reset_level installs a
\* new layout; the loop goes on over the old list).  A removal shifts the
\* later enemies down by one while the index moves on.
RECURSIVE EnemyLoop(_, _, _, _, _, _)
EnemyLoop(e, r, lst, i, same, rnd) ==
    LET
        \* current_level_data['enemies'].remove(enemy), the score and the burst
        KillEnemy(eng, en, how, count, draw) ==
            Emit([eng EXCEPT !.level.enemies = RemoveFirst(@, en),
                           !.score = @ + ENEMY_SCORE,
                           !.log = Append(@, [op |-> how, enemy |-> en])],
                 <<Px(en.pos[1]), Px(en.pos[2])>>, count, draw)
    IN
    IF i > Len(lst) THEN e
    ELSE LET en == lst[i]
             er == EnemyRect(en)
         IN  IF ~colliderect(r, er) THEN EnemyLoop(e, r, lst, i + 1, same, rnd)
             ELSE IF e.mario.invincible > 0 THEN
                 LET e1 == KillEnemy(e, en, "destroy", 20, rnd)
                 IN  EnemyLoop(e1, r, IF same THEN e1.level.enemies ELSE lst,
                               i + 1, same, rnd)
             ELSE IF IsStomp(e.mario, r, er) THEN
                 LET e1 == [KillEnemy(e, en, "stomp", 15, rnd) EXCEPT
                               !.mario.vel[2] = STOMP_BOUNCE]
                 IN  EnemyLoop(e1, r, IF same THEN e1.level.enemies ELSE lst,
                               i + 1, same, rnd)
             ELSE
                 LET e1 == damage_mario(e, rnd)
                     replaced == e.mario.power = "SMALL" /\ e1.lives > 0
                 IN  EnemyLoop(e1, r, lst, i + 1, same /\ ~replaced, rnd)

\* check_collisions
check_collisions(e, rnd) ==
    IF ~e.level.loaded THEN e
    ELSE LET r == get_mario_rect(e.mario)
             e1 == [e EXCEPT !.mario.on_ground = FALSE]
             e2 == PlatformLoop(e1, r, 1)
             e3 == BlockLoop(e2, r, 1, rnd)
         IN  EnemyLoop(e3, r, e3.level.enemies, 1, TRUE, rnd)

Integrate(e) ==
    LET
        Gravity(m) ==
            IF m.on_ground THEN m.vel[2]
            ELSE Min(IF m.jump_held /\ m.vel[2] < 0
                     THEN m.vel[2] + MARIO_JUMP_HOLD_GRAVITY
                     ELSE m.vel[2] + MARIO_GRAVITY, MARIO_MAX_FALL)
        \* update_mario_physics up to the level boundary: acceleration toward the
        \* target speed 0, friction, gravity, terminal velocity, position
        Accelerate(vx) ==
            IF vx < 0 THEN Min(vx + MARIO_ACCELERATION, 0)
            ELSE IF vx > 0 THEN Max(vx - MARIO_ACCELERATION, 0)
            ELSE vx
        Friction(vx, on_ground) ==
            IF on_ground
            THEN IF Abs(vx) < MARIO_FRICTION THEN 0 ELSE Damp(vx, MARIO_FRICTION)
            ELSE Damp(vx, MARIO_AIR_FRICTION)
    IN
    LET m == e.mario
        vx == Friction(Accelerate(m.vel[1]), m.on_ground)
        vy == Gravity(m)
    IN  [e EXCEPT !.mario.vel = <<vx, vy>>,
                  !.mario.pos = <<Max(0, m.pos[1] + vx), m.pos[2] + vy>>]

\* update_mario_physics
update_mario_physics(e, rnd) == check_collisions(Integrate(e), rnd)

(***************************************************************************)
(* handle_input; ks is the set of logical keys held                        *)
(***************************************************************************)
SHOOT_COOLDOWN == 15

RECURSIVE EmitTimes(_, _, _, _, _)
EmitTimes(e, pos, count, times, rnd) ==
    IF times = 0 THEN e
    ELSE EmitTimes(Emit(e, pos, count, rnd), pos, count, times - 1, rnd)

\* Run button, and the fireball it shoots when powered up (shoot_fireball)
RunAndFire(e, ks, rnd) ==
    LET e1 == [e EXCEPT !.mario.running = "run" \in ks]
        m == e1.mario
    IN  IF m.running /\ m.power = "FIRE" /\ m.can_shoot
        THEN Emit([e1 EXCEPT !.mario.can_shoot = FALSE,
                             !.mario.shoot_cooldown = SHOOT_COOLDOWN],
                  <<m.pos[1] + (IF m.facing_right THEN Px(24) ELSE 0), m.pos[2] + Px(20)>>,
                  15, rnd)
        ELSE e1

\* Jump button
Jump(e, ks, rnd) ==
    LET m == e.mario
    IN  IF "jump" \in ks THEN
            IF m.on_ground /\ ~m.jumping THEN
                EmitTimes([e EXCEPT !.mario.vel[2] =
                                       IF Abs(m.vel[1]) > MARIO_WALK_SPEED
                                       THEN MARIO_RUN_JUMP_POWER ELSE MARIO_JUMP_POWER,
                                    !.mario.jumping = TRUE,
                                    !.mario.jump_held = TRUE],
                          <<m.pos[1] + Px(12), m.pos[2] + Px(30)>>, 8, 8, rnd)
            ELSE [e EXCEPT !.mario.jump_held = TRUE]
        ELSE [e EXCEPT !.mario.jumping = FALSE, !.mario.jump_held = FALSE]

\* Duck, and enter_pipe for every enterable pipe under the character
RECURSIVE PipeLoop(_, _, _)
PipeLoop(e, i, rnd) ==
    IF i > Len(e.level.pipes) THEN e
    ELSE LET pipe == e.level.pipes[i]
             e1 == IF pipe.enterable /\ colliderect(get_mario_rect(e.mario), pipe.rect)
                   THEN Emit([e EXCEPT !.mario.in_pipe = TRUE], e.mario.pos, 20, rnd)
                   ELSE e
         IN  PipeLoop(e1, i + 1, rnd)

handle_input(e, ks, rnd) ==
    LET
        Duck(eng, held, draw) ==
            LET down == "down" \in held /\ eng.mario.on_ground
                e1 == [eng EXCEPT !.mario.ducking = down]
            IN  IF down THEN PipeLoop(e1, 1, draw) ELSE e1
        \* Movement: the held direction sets the horizontal velocity
        Steer(m, held) ==
            IF "left" \in held THEN
                [m EXCEPT !.vel[1] = IF m.running THEN -MARIO_RUN_SPEED ELSE -MARIO_WALK_SPEED,
                          !.facing_right = FALSE]
            ELSE IF "right" \in held THEN
                [m EXCEPT !.vel[1] = IF m.running THEN MARIO_RUN_SPEED ELSE MARIO_WALK_SPEED,
                          !.facing_right = TRUE]
            ELSE m
        \* Shoot cooldown
        Cooldown(m) ==
            IF m.shoot_cooldown > 0 THEN [m EXCEPT !.shoot_cooldown = @ - 1]
            ELSE [m EXCEPT !.can_shoot = TRUE]
    IN
    IF e.state # "LEVEL" THEN e
    ELSE IF "pause" \in ks THEN [e EXCEPT !.paused = ~@]
    ELSE IF e.paused THEN e
    ELSE LET e1 == [e EXCEPT !.mario = Steer(@, ks)]
             e2 == RunAndFire(e1, ks, rnd)
             e3 == Jump(e2, ks, rnd)
             e4 == Duck(e3, ks, rnd)
         IN  [e4 EXCEPT !.mario = Cooldown(@)]

(***************************************************************************)
(* generate_level.  draws[k] holds what the random source yields for the   *)
(* k-th 200-pixel segment: gap (random() > 0.8), plat (0, or the floating  *)
(* platform's plat_y), block_y and contents (one entry per question        *)
(* block), enemy (0, or the offset randint(20, 180)) and etype, pipe (0,   *)
(* or pipe_height) and enterable.  The segments after the drawn ones are   *)
(* gaps.                                                                   *)
(***************************************************************************)
SEGMENT_WIDTH == 200

GROUND_Y == 500

ENEMY_Y == 470

RECURSIVE BlockRun(_, _, _, _)
BlockRun(x, block_y, contents, i) ==
    IF i > Len(contents) THEN <<>>
    ELSE <<[rect |-> Rect(x + (i - 1) * 40, block_y, 32, 32), type |-> "question",
            contains |-> contents[i], hit |-> FALSE]>>
         \o BlockRun(x, block_y, contents, i + 1)

LevelExit == [pos |-> <<4800, 400>>, type |-> "flag"]

RECURSIVE GenerateFrom(_, _, _)
GenerateFrom(level, draws, k) ==
    IF k > Len(draws) THEN [level EXCEPT !.exit = LevelExit]
    ELSE LET d == draws[k]
             x == (k - 1) * SEGMENT_WIDTH
             ground == <<[rect |-> Rect(x, GROUND_Y, SEGMENT_WIDTH, 100),
                          type |-> "ground", collision |-> TRUE]>>
             floating == IF d.plat = 0 THEN <<>>
                         ELSE <<[rect |-> Rect(x + 50, d.plat, 100, 20),
                                 type |-> "floating", collision |-> TRUE]>>
             enemy == IF d.enemy = 0 THEN <<>>
                      ELSE <<[type |-> d.etype, pos |-> <<x + d.enemy, ENEMY_Y>>,
                              vel |-> <<-1, 0>>, patrol_range |-> <<x, x + SEGMENT_WIDTH>>]>>
             pipe == IF d.pipe = 0 THEN <<>>
                     ELSE <<[rect |-> Rect(x + 100, GROUND_Y - d.pipe, 64, d.pipe),
                             type |-> "green", enterable |-> d.enterable,
                             destination |-> "bonus"]>>
         IN  IF d.gap THEN GenerateFrom(level, draws, k + 1)
             ELSE GenerateFrom(
                    [level EXCEPT !.platforms = @ \o ground \o floating,
                                  !.blocks = @ \o BlockRun(x, d.block_y, d.contents, 1),
                                  !.enemies = @ \o enemy,
                                  !.pipes = @ \o pipe],
                    draws, k + 1)

generate_level(draws) ==
    GenerateFrom([loaded |-> TRUE, platforms |-> <<>>, blocks |-> <<>>,
                  enemies |-> <<>>, pipes |-> <<>>, exit |-> NoExit], draws, 1)

(***************************************************************************)
(* evolve_particles.  The fitness is np.std over the x and y of every      *)
(* particle, taken here in whole pixels around the integer mean; the       *)
(* sample of a tenth of the particles is the oldest ones.                  *)
(***************************************************************************)
EVOLVE_ABOVE == 100

\* particle['vel'] += kick on the first k particles of the list
RECURSIVE KickFirst(_, _, _, _)
KickFirst(ps, k, kick, i) ==
    IF i > Len(ps) THEN <<>>
    ELSE IF k = 0 THEN SubSeq(ps, i, Len(ps))
    ELSE LET p == ps[i]
             kicked(n) == [p EXCEPT !.n = n,
                                    !.vel = <<p.vel[1] + kick[1], p.vel[2] + kick[2]>>]
         IN  IF p.n <= k
             THEN <<kicked(p.n)>> \o KickFirst(ps, k - p.n, kick, i + 1)
             ELSE <<kicked(k), [p EXCEPT !.n = p.n - k]>>
                  \o SubSeq(ps, i + 1, Len(ps))

\* evolve_particles moving the sampled particles instead of turning them
SMB3_evolve_particles_moving(e, kick) ==
    IF NumParticles(e.particles) > EVOLVE_ABOVE
    THEN [e EXCEPT !.particles = [i \in DOMAIN @ |->
                                    [@[i] EXCEPT !.pos = <<@[1] + kick[1],
                                                           @[2] + kick[2]>>]],
                   !.generation = @ + 1]
    ELSE e

SMB3_evolve_particles(e, kick) ==
    LET
        \* the sum of F over the particles from run i on, divided by count,
        \* as quotient and remainder so that no partial sum leaves the
        \* 32-bit integers; summed by halves
        RECURSIVE SumOver(_, _, _, _)
        SumOver(ps, F(_), count, i) ==
            IF i > Len(ps) THEN <<0, 0>>
            ELSE IF i = Len(ps)
            THEN LET t == ps[i].n * (F(ps[i]) % count)
                 IN  <<ps[i].n * (F(ps[i]) \div count) + (t \div count), t % count>>
            ELSE LET mid == (i + Len(ps)) \div 2
                     head == SumOver(SubSeq(ps, i, mid), F, count, 1)
                     rest == SumOver(ps, F, count, mid + 1)
                     t == head[2] + rest[2]
                 IN  <<head[1] + rest[1] + (t \div count), t % count>>
        Fit(ps) ==
            LET \* fitness_threshold * SCREEN_WIDTH, squared: std below 560 pixels
                FITNESS_VARIANCE == 313600
                count == 2 * NumParticles(ps)
                coords(p) == Trunc(p.pos[1]) + Trunc(p.pos[2])
                mean == SumOver(ps, coords, count, 1)[1]
                squares(p) == (Trunc(p.pos[1]) - mean) * (Trunc(p.pos[1]) - mean)
                              + (Trunc(p.pos[2]) - mean) * (Trunc(p.pos[2]) - mean)
            IN  SumOver(ps, squares, count, 1)[1] < FITNESS_VARIANCE
    IN
    IF NumParticles(e.particles) > EVOLVE_ABOVE
    THEN [e EXCEPT !.particles = IF Fit(e.particles)
                                 THEN KickFirst(@, NumParticles(@) \div 10, kick, 1)
                                 ELSE @,
                   !.generation = @ + 1]
    ELSE e

(***************************************************************************)
(* PhotonSpec: the particle engine driven through its own operations       *)
(***************************************************************************)
RandVels == {<<100, 0>>}

PhotonInit ==
    /\ Constructed
    /\ pc = "photon"
    /\ budget = [bursts |-> MaxBursts]

engineVars == <<state, lives, coins, score, time, paused, mario,
                current_level_data, current_world, current_level, pc, keys>>

EmitCall ==
    LET
        BurstOrigins == {<<Px(100), Px(400)>>}
        BurstCounts == {0, 20, 9995}
    IN
    /\ pc = "photon"
    /\ budget.bursts > 0
    /\ \E c \in BurstCounts, o \in BurstOrigins, v \in RandVels :
         /\ particles' = emit_photon_burst(particles, o, c, v)
         /\ call' = [name |-> "emit", count |-> c, before |-> NumParticles(particles)]
    /\ budget' = [budget EXCEPT !.bursts = @ - 1]
    /\ UNCHANGED <<generation, engineVars>>

PassCall ==
    /\ pc = "photon"
    /\ particles' = UpdateParticles(particles)
    /\ call' = [name |-> "pass", count |-> 0, before |-> NumParticles(particles)]
    /\ UNCHANGED <<generation, budget, engineVars>>

PhotonNext == EmitCall \/ PassCall

PhotonSpec == PhotonInit /\ [][PhotonNext]_vars

(***************************************************************************)
(* EvolveSpec: evolve_particles called on particle lists the engine can    *)
(* hold: an older burst that has gone through some passes and a fresh one  *)
(***************************************************************************)
EvolveInit ==
    LET
        RECURSIVE Passes(_, _)
        Passes(ps, k) == IF k = 0 \/ ps = <<>> THEN ps
                         ELSE IF k = 1 THEN UpdateParticles(ps)
                         ELSE Passes(Passes(ps, k \div 2), k - k \div 2)
        BurstOrigin == <<Px(100), Px(400)>>
        BurstCounts == {0, 50, 100, 101, 5000}
        Ages == {0, 40, 84}
        Older(c, age) == Passes(emit_photon_burst(<<>>, BurstOrigin, c, <<700, 700>>), age)
    IN
    /\ \E older \in {Older(c, age) : c \in BurstCounts, age \in Ages},
          fresh \in BurstCounts :
         particles = emit_photon_burst(older, BurstOrigin, fresh, <<-100, -100>>)
    /\ generation \in {0, 7}
    /\ state = "WORLD_MAP"
    /\ lives = 5
    /\ coins = 0
    /\ score = 0
    /\ time = 400
    /\ paused = FALSE
    /\ mario = NewMario
    /\ current_level_data = NoLevel
    /\ current_world = 1
    /\ current_level = 1
    /\ keys = {}
    /\ call = NoCall
    /\ pc = "evolve"
    /\ budget = [evolves |-> MaxEvolves]

\* evolve_particles on the engine as it stands; the mutation is one draw of
\* np.random.randn(2) * 0.5
EvolveCall ==
    LET
        Kicks == {<<50, -50>>, <<-25, 0>>}
    IN
    /\ pc = "evolve"
    /\ budget.evolves > 0
    /\ \E kick \in Kicks :
         LET e == SMB3_evolve_particles([particles |-> particles,
                                         generation |-> generation], kick)
         IN  /\ particles' = e.particles
             /\ generation' = e.generation
    /\ call' = [name |-> "evolve", count |-> 0, before |-> NumParticles(particles)]
    /\ budget' = [budget EXCEPT !.evolves = @ - 1]
    /\ UNCHANGED engineVars

EvolveSpec == EvolveInit /\ [][EvolveCall]_vars

(***************************************************************************)
(* The engine's variables as one value, and back                           *)
(***************************************************************************)
Eng ==
    [mario |-> mario, lives |-> lives, coins |-> coins, score |-> score,
     time |-> time, state |-> state, paused |-> paused,
     level |-> current_level_data, particles |-> particles, log |-> <<>>]

SetEng(e) ==
    /\ mario' = e.mario
    /\ lives' = e.lives
    /\ coins' = e.coins
    /\ score' = e.score
    /\ time' = e.time
    /\ state' = e.state
    /\ paused' = e.paused
    /\ current_level_data' = e.level
    /\ particles' = e.particles

Called(name, pre, e) == [name |-> name, pre |-> pre, log |-> e.log]

Resets(e) == \E i \in DOMAIN e.log : e.log[i].op = "reset_level"

(***************************************************************************)
(* What the environment yields within the bounds: the layouts              *)
(* generate_level draws, the keys held, the velocity a burst draws         *)
(***************************************************************************)
Draw(plat, block_y, contents, enemy, pipe) ==
    [gap |-> FALSE, plat |-> plat, block_y |-> block_y, contents |-> contents,
     enemy |-> enemy, etype |-> "goomba", pipe |-> pipe, enterable |-> TRUE]

\* a floating platform under the spawn point, question blocks above it, an
\* enemy beside it and an enterable pipe; third is the third block's content
Playground(third) ==
    <<Draw(430, 360, <<"coin", "coin", third, "coin">>, 124, 150)>>

\* three ground segments, an enemy at the end of the second and one at the
\* start of the third
EnemyPair == <<Draw(0, 300, <<>>, 0, 0), Draw(0, 300, <<>>, 180, 0),
               Draw(0, 300, <<>>, 20, 0)>>

\* a floating platform and a run of blocks whose undersides are level
LowCeiling == <<Draw(400, 388, <<"coin", "coin", "coin">>, 0, 0)>>

LevelDraws ==
    {Playground(c) : c \in {"coin", "mushroom", "flower", "star"}}
        \cup {EnemyPair, LowCeiling}

Layouts == {generate_level(d) : d \in LevelDraws}

InputChoices ==
    {{}, {"left"}, {"right"}, {"jump"}, {"run", "right"}, {"down"}, {"pause"},
     {"return"}}

Rnd(v, lv) == [vel |-> v, level |-> lv]

\* the layouts a reset can install, asked for only when the operation resets
ResetLayouts(probe) == IF Resets(probe) THEN Layouts ELSE {NoLevel}

(***************************************************************************)
(* The operations, as steps.  next is the place the caller goes on at.     *)
(***************************************************************************)
DoHandleInput(ks) ==
    \E v \in RandVels :
        LET e == handle_input(Eng, ks, Rnd(v, NoLevel))
        IN  /\ SetEng(e)
            /\ call' = Called("handle_input", <<>>, e)

DoUpdateMarioPhysics ==
    \E v \in RandVels :
      \E lv \in ResetLayouts(update_mario_physics(Eng, Rnd(v, NoLevel))) :
        LET e == update_mario_physics(Eng, Rnd(v, lv))
        IN  /\ SetEng(e)
            /\ call' = Called("update_mario_physics", Integrate(Eng), e)

\* run: "Update timer"; sec tells whether the clock is within 16 ms of a
\* whole second
UpdateTimer(e, sec, rnd) ==
    IF ~sec THEN e
    ELSE LET e1 == [e EXCEPT !.time = @ - 1]
         IN  IF e1.time <= 0 THEN [damage_mario(e1, rnd) EXCEPT !.time = 400]
             ELSE e1

DoUpdateTimer(sec) ==
    \E v \in RandVels :
      \E lv \in ResetLayouts(UpdateTimer(Eng, sec, Rnd(v, NoLevel))) :
        LET e == UpdateTimer(Eng, sec, Rnd(v, lv))
        IN  /\ SetEng(e)
            /\ call' = Called("update_timer", <<>>, e)

\* run: "Update invincibility"
UpdateInvincibilityStuck(e) == e

UpdateInvincibility(e) ==
    IF e.mario.invincible > 0 THEN [e EXCEPT !.mario.invincible = @ - 1] ELSE e

DoUpdateInvincibility ==
    LET e == UpdateInvincibility(Eng)
    IN  /\ SetEng(e)
        /\ call' = Called("update_invincibility", <<>>, e)

ScreenX(e, i) ==
    LET
        \* render_level: the camera, the edge glow of the platform glow (0: none
        \* drew below 0.1), and the particle loop
        Camera(m) == Max(0, Min(m.pos[1] - Px(266), Px(4200)))
    IN
    Trunc(Px(e.level.platforms[i].rect.x) - Camera(e.mario))

render_level(e, glow, rnd) ==
    IF ~e.level.loaded THEN e
    ELSE LET e1 == IF glow = 0 THEN e
                   ELSE Emit(e, <<Px(ScreenX(e, glow)), Px(e.level.platforms[glow].rect.y)>>,
                             2, rnd)
         IN  [e1 EXCEPT !.particles = UpdateParticles(@)]

\* render
render(e, glow, rnd) == IF e.state = "LEVEL" THEN render_level(e, glow, rnd) ELSE e

Glows(e) ==
    LET
        Visible(eng, i) == -100 < ScreenX(eng, i) /\ ScreenX(eng, i) < 900
    IN
    IF e.state = "LEVEL" /\ e.level.loaded /\ budget.glows > 0
    THEN {0} \cup {i \in DOMAIN e.level.platforms : Visible(e, i)}
    ELSE {0}

DoRender ==
    \E v \in RandVels, glow \in Glows(Eng) :
        LET e == render(Eng, glow, Rnd(v, NoLevel))
        IN  /\ SetEng(e)
            /\ call' = Called("render", <<>>, e)
            /\ budget' = [budget EXCEPT !.glows = IF glow = 0 THEN @ ELSE @ - 1]

(***************************************************************************)
(* Spec: MarioForeverEngine.run from construction, one step per statement  *)
(* of the loop body.  budget bounds the frames, the changes of the held    *)
(* keys, the frames that fall on a whole second and the glow bursts.       *)
(***************************************************************************)
MaxFrames == 5

MaxKeyChanges == 3

MaxSeconds == 1

MaxGlows == 1

Init ==
    /\ Constructed
    /\ pc = "start"
    /\ budget = [frames |-> MaxFrames, keychanges |-> MaxKeyChanges,
                 seconds |-> MaxSeconds, glows |-> MaxGlows]

\* run, before the loop: "Start in level for testing"
RunStart ==
    /\ pc = "start"
    /\ \E lv \in Layouts :
        /\ state' = "LEVEL"
        /\ current_level_data' = lv
    /\ pc' = "events"
    /\ call' = [name |-> "run", pre |-> <<>>, log |-> <<>>]
    /\ UNCHANGED <<particles, generation, current_world, current_level, lives,
                   coins, score, time, paused,
                   mario, keys, budget>>

\* the event loop: ks are the keys held from now on, those newly down are
\* the KEYDOWN events, which the step logs.  __init__ on RETURN after game
\* over.
Events ==
    /\ pc = "events"
    /\ budget.frames > 0
    /\ \E ks \in InputChoices :
        /\ ks = keys \/ budget.keychanges > 0
        /\ keys' = ks
        /\ budget' = [budget EXCEPT !.frames = @ - 1,
                                    !.keychanges = IF ks = keys THEN @ ELSE @ - 1]
        /\ IF state = "WORLD_MAP" /\ "jump" \in ks \ keys THEN
               /\ state' = "LEVEL"
               /\ \E lv \in Layouts : current_level_data' = lv
               /\ UNCHANGED <<particles, lives, coins, score, time, paused, mario>>
           ELSE IF state = "GAME_OVER" /\ "return" \in ks \ keys THEN
               /\ state' = "WORLD_MAP"
               /\ current_level_data' = NoLevel
               /\ particles' = <<>>
               /\ lives' = 5
               /\ coins' = 0
               /\ score' = 0
               /\ time' = 400
               /\ paused' = FALSE
               /\ mario' = NewMario
           ELSE UNCHANGED <<state, current_level_data, particles, lives, coins,
                            score, time, paused, mario>>
    /\ pc' = IF state' = "LEVEL" /\ ~paused' THEN "input" ELSE "render"
    /\ call' = [name |-> "events", pre |-> <<>>,
                log |-> IF keys' \subseteq keys THEN <<>>
                        ELSE <<[op |-> "keydown", keys |-> keys' \ keys]>>]
    /\ UNCHANGED <<generation, current_world, current_level>>

HandleInput ==
    /\ pc = "input"
    /\ DoHandleInput(keys)
    /\ pc' = "physics"
    /\ UNCHANGED <<generation, current_world, current_level, keys, budget>>

UpdateMarioPhysics ==
    /\ pc = "physics"
    /\ DoUpdateMarioPhysics
    /\ pc' = "timer"
    /\ UNCHANGED <<generation, current_world, current_level, keys, budget>>

TimerTick ==
    /\ pc = "timer"
    /\ \E sec \in BOOLEAN :
        /\ sec => budget.seconds > 0
        /\ DoUpdateTimer(sec)
        /\ budget' = [budget EXCEPT !.seconds = IF sec THEN @ - 1 ELSE @]
    /\ pc' = "invincible"
    /\ UNCHANGED <<generation, current_world, current_level, keys>>

InvincibilityTick ==
    /\ pc = "invincible"
    /\ DoUpdateInvincibility
    /\ pc' = "render"
    /\ UNCHANGED <<generation, current_world, current_level, keys, budget>>

Render ==
    /\ pc = "render"
    /\ DoRender
    /\ pc' = "events"
    /\ UNCHANGED <<generation, current_world, current_level, keys>>

Next ==
    \/ RunStart
    \/ Events
    \/ HandleInput
    \/ UpdateMarioPhysics
    \/ TimerTick
    \/ InvincibilityTick
    \/ Render

Spec == Init /\ [][Next]_vars

(***************************************************************************)
(* ApiSpec: the engine's operations called, in any order, on an engine in  *)
(* the middle of play.  A scene is the engine as run leaves it between two *)
(* statements of the loop body; the freshly constructed engine is one too. *)
(***************************************************************************)
MaxCalls == 2

\* the character's y when its box of the given power stands on top
StandingOn(top, power) == Px(top - (IF power = "SMALL" THEN 30 ELSE 40))

Scenes ==
    LET
        ScenesOf(power) ==
            LET
                \* the kinematic situations, each in a layout: just spawned; at rest on the
                \* floating platform under the blocks; at rest on the ground beside an
                \* enemy and in front of a pipe; walking left over the seam of two ground
                \* segments while landing; rising under the platform and the blocks; falling
                \* onto an enemy; having just jumped off the floating platform under the
                \* third block alone, the block unstruck or struck by an earlier jump
                Situations ==
                    LET
                        \* the layout with its i-th block struck earlier in the level
                        StruckBlock(level, i) == [level EXCEPT !.blocks[i].hit = TRUE]
                        Placed(x, y, vx, vy, ground) ==
                            [NewMario EXCEPT !.pos = <<x, y>>, !.vel = <<vx, vy>>, !.on_ground = ground]
                    IN
                    {[level |-> lv, mario |-> NewMario] : lv \in Layouts}
                      \cup {[level |-> generate_level(Playground(c)),
                             mario |-> Placed(Px(100), StandingOn(430, power), 0, 0, TRUE)] :
                                c \in {"coin", "mushroom", "flower", "star"}}
                      \cup {[level |-> generate_level(Playground("coin")),
                             mario |-> Placed(Px(100), StandingOn(GROUND_Y, power), 0, 0, TRUE)],
                            [level |-> generate_level(EnemyPair),
                             mario |-> Placed(Px(200), StandingOn(GROUND_Y, power) + 45,
                                              -MARIO_WALK_SPEED, MARIO_GRAVITY, FALSE)],
                            [level |-> generate_level(LowCeiling),
                             mario |-> [Placed(Px(100), Px(425), 0, -1000, FALSE) EXCEPT
                                           !.jumping = TRUE, !.jump_held = TRUE]],
                            [level |-> generate_level(Playground("coin")),
                             mario |-> Placed(Px(152), StandingOn(466, power), 0, 600, FALSE)]}
                      \cup {[level |-> lv,
                             mario |-> [Placed(Px(85), StandingOn(430, power), 0, MARIO_JUMP_POWER, TRUE)
                                           EXCEPT !.jumping = TRUE, !.jump_held = TRUE]] :
                                lv \in {generate_level(Playground("mushroom")),
                                        StruckBlock(generate_level(Playground("mushroom")), 3),
                                        StruckBlock(generate_level(Playground("star")), 3)}}
            IN
            {[mario |-> [sit.mario EXCEPT !.power = power, !.invincible = inv],
              lives |-> lv, coins |-> 0, score |-> 0, time |-> t, state |-> "LEVEL",
              paused |-> FALSE, level |-> sit.level, particles |-> <<>>, log |-> <<>>] :
                inv \in {0, 2}, lv \in {3, 1}, t \in {400, 1}, sit \in Situations}
    IN
    UNION {ScenesOf(power) : power \in {"SMALL", "SUPER", "FIRE"}}
      \cup {[mario |-> NewMario, lives |-> 5, coins |-> 0, score |-> 0,
             time |-> 400, state |-> "WORLD_MAP", paused |-> FALSE,
             level |-> NoLevel, particles |-> <<>>, log |-> <<>>]}

ApiInit ==
    /\ \E sc \in Scenes :
        /\ mario = sc.mario
        /\ lives = sc.lives
        /\ coins = sc.coins
        /\ score = sc.score
        /\ time = sc.time
        /\ state = sc.state
        /\ paused = sc.paused
        /\ current_level_data = sc.level
        /\ particles = sc.particles
    /\ generation = 0
    /\ current_world = 1
    /\ current_level = 1
    /\ keys = {}
    /\ call = [name |-> "scene", pre |-> <<>>, log |-> <<>>]
    /\ pc = "api"
    /\ budget = [calls |-> MaxCalls, glows |-> MaxGlows]

ApiCall ==
    /\ pc = "api"
    /\ budget.calls > 0
    /\ pc' = pc
    /\ generation' = generation
    /\ UNCHANGED <<current_world, current_level>>

Spend == budget' = [budget EXCEPT !.calls = @ - 1]

CallHandleInput ==
    /\ ApiCall
    /\ \E ks \in InputChoices : DoHandleInput(ks) /\ keys' = ks
    /\ Spend

CallUpdateMarioPhysics == ApiCall /\ DoUpdateMarioPhysics /\ Spend /\ keys' = keys

CallCheckCollisions ==
    LET
        DoCheckCollisions ==
            \E v \in RandVels :
              \E lv \in ResetLayouts(check_collisions(Eng, Rnd(v, NoLevel))) :
                LET e == check_collisions(Eng, Rnd(v, lv))
                IN  /\ SetEng(e)
                    /\ call' = Called("check_collisions", Eng, e)
    IN
    ApiCall /\ DoCheckCollisions /\ Spend /\ keys' = keys

CallDamageMario ==
    LET
        DoDamageMario ==
            \E v \in RandVels :
              \E lv \in ResetLayouts(damage_mario(Eng, Rnd(v, NoLevel))) :
                LET e == damage_mario(Eng, Rnd(v, lv))
                IN  /\ SetEng(e)
                    /\ call' = Called("damage_mario", <<>>, e)
    IN
    ApiCall /\ DoDamageMario /\ Spend /\ keys' = keys

CallHitBlock ==
    /\ ApiCall
    /\ \E v \in RandVels, i \in DOMAIN current_level_data.blocks :
        LET e == hit_block(Eng, i, Rnd(v, NoLevel))
        IN  /\ SetEng(e)
            /\ call' = Called("hit_block", <<>>, e)
    /\ Spend
    /\ keys' = keys

CallUpdateTimer == ApiCall /\ DoUpdateTimer(TRUE) /\ Spend /\ keys' = keys

CallUpdateInvincibility == ApiCall /\ DoUpdateInvincibility /\ Spend /\ keys' = keys

CallRender ==
    /\ ApiCall
    /\ \E v \in RandVels, glow \in Glows(Eng) :
        LET e == render(Eng, glow, Rnd(v, NoLevel))
        IN  /\ SetEng(e)
            /\ call' = Called("render", <<>>, e)
            /\ budget' = [budget EXCEPT !.calls = @ - 1,
                                        !.glows = IF glow = 0 THEN @ ELSE @ - 1]
    /\ keys' = keys

ApiNext ==
    \/ CallHandleInput
    \/ CallUpdateMarioPhysics
    \/ CallCheckCollisions
    \/ CallDamageMario
    \/ CallHitBlock
    \/ CallUpdateTimer
    \/ CallUpdateInvincibility
    \/ CallRender

ApiSpec == ApiInit /\ [][ApiNext]_vars

(***************************************************************************)
(* SMB3Engine (koopahdrv0.py): the worlds and the level generators.        *)
(* A level key is a string: the decimal of an int key, or the name of a    *)
(* named level.  Rects are in pixels; the positions and velocities of the  *)
(* character and of the enemies are in hundredths of a pixel.              *)
(***************************************************************************)
\* str(n) for the int keys of the table
IntKeys == <<"1", "2", "3", "4", "5", "6", "7", "8", "9", "10">>

LevelKey(n) == IF n \in DOMAIN IntKeys THEN IntKeys[n] ELSE "undefined"

\* _define_worlds: world -> its 'levels' dict, in insertion order
worlds ==
    LET
        LevelInfo(k, t) == [key |-> k, type |-> t]
    IN
    <<
      <<LevelInfo("1", "standard"), LevelInfo("2", "standard"),
        LevelInfo("3", "standard"), LevelInfo("4", "fortress"),
        LevelInfo("5", "standard"), LevelInfo("6", "standard"),
        LevelInfo("castle", "castle"), LevelInfo("airship", "airship")>>,
      <<LevelInfo("1", "standard"), LevelInfo("2", "pyramid"),
        LevelInfo("3", "standard"), LevelInfo("4", "quicksand"),
        LevelInfo("5", "fortress"), LevelInfo("pyramid", "pyramid_inside"),
        LevelInfo("castle", "castle"), LevelInfo("airship", "airship")>>,
      <<LevelInfo("1", "water"), LevelInfo("2", "standard"),
        LevelInfo("3", "underwater"), LevelInfo("4", "big_island"),
        LevelInfo("5", "fortress"), LevelInfo("6", "water"),
        LevelInfo("7", "spike"), LevelInfo("8", "underwater"),
        LevelInfo("9", "bridge"), LevelInfo("castle", "castle"),
        LevelInfo("airship", "airship")>>,
      <<LevelInfo("1", "giant"), LevelInfo("2", "giant_pipes"),
        LevelInfo("3", "giant_blocks"), LevelInfo("4", "giant_water"),
        LevelInfo("5", "fortress"), LevelInfo("6", "giant_enemies"),
        LevelInfo("castle", "castle"), LevelInfo("airship", "airship")>>,
      <<LevelInfo("1", "clouds"), LevelInfo("2", "rotating_platforms"),
        LevelInfo("3", "chain_chomps"), LevelInfo("4", "parabeetles"),
        LevelInfo("5", "fortress"), LevelInfo("6", "clouds"),
        LevelInfo("7", "tower"), LevelInfo("8", "parabeetles"),
        LevelInfo("9", "fortress"), LevelInfo("tower", "spiral_tower"),
        LevelInfo("castle", "castle"), LevelInfo("airship", "airship")>>,
      <<LevelInfo("1", "ice"), LevelInfo("2", "ice_blocks"),
        LevelInfo("3", "ice_fortress"), LevelInfo("4", "slippery"),
        LevelInfo("5", "ice_underwater"), LevelInfo("6", "ice"),
        LevelInfo("7", "ice_spikes"), LevelInfo("8", "fortress"),
        LevelInfo("9", "ice_maze"), LevelInfo("10", "ice"),
        LevelInfo("castle", "castle"), LevelInfo("airship", "airship")>>,
      <<LevelInfo("1", "pipes"), LevelInfo("2", "pipe_maze"),
        LevelInfo("3", "underwater_pipes"), LevelInfo("4", "giant_pipes"),
        LevelInfo("5", "fortress"), LevelInfo("6", "piranha_garden"),
        LevelInfo("7", "pipe_maze"), LevelInfo("8", "fortress"),
        LevelInfo("9", "fast_pipes"), LevelInfo("piranha", "piranha_boss"),
        LevelInfo("castle", "castle"), LevelInfo("airship", "airship")>>,
      <<LevelInfo("1", "tanks"), LevelInfo("2", "battleships"),
        LevelInfo("fortress1", "fortress"), LevelInfo("3", "hand_traps"),
        LevelInfo("airforce", "airship_fleet"), LevelInfo("fortress2", "fortress"),
        LevelInfo("super_tank", "super_tank"),
        LevelInfo("bowser_castle", "final_castle")>>
    >>

\* world_data['levels'].get(level_num, world_data['levels'][1])
LevelDefined(world_num, key) ==
    \E i \in DOMAIN worlds[world_num] : worlds[world_num][i].key = key

LevelInfoOf(world_num, key) ==
    LET levels == worlds[world_num]
        k == IF LevelDefined(world_num, key) THEN key ELSE "1"
    IN  levels[CHOOSE i \in DOMAIN levels : levels[i].key = k]

RECURSIVE Flat(_)
Flat(ss) == IF ss = <<>> THEN <<>> ELSE Head(ss) \o Flat(Tail(ss))

\* the values of range(0, n * step, step), as a sequence
Steps(n, step) == [k \in 1..n |-> (k - 1) * step]

(***************************************************************************)
(* _generate_standard_level.  d.segs holds the draws of the first          *)
(* segments: width, height, floating, enemy ("none" or the type), blocks   *)
(* (one entry per block: its offset in the row, type and contents), pipe   *)
(* (0, or pipe_height), enterable and destination; every later segment     *)
(* draws the plain one.                                                    *)
(***************************************************************************)
Y_BASE == 500

STANDARD_SEGMENTS == 20

PlainSegment ==
    [width |-> 150, height |-> 20, floating |-> FALSE, enemy |-> "none",
     blocks |-> <<>>, pipe |-> 0, enterable |-> FALSE, destination |-> "bonus"]

SMB3_generate_standard_level(world_num, d) ==
    LET
        StandardPipes(x, s) ==
            IF s.pipe = 0 THEN <<>>
            ELSE <<[rect |-> Rect(x + s.width - 60, Y_BASE - s.pipe, 60, s.pipe),
                    type |-> "green", enterable |-> s.enterable,
                    destination |-> s.destination]>>
        StandardBlocks(x, s) ==
            [i \in DOMAIN s.blocks |->
                [rect |-> Rect(x + s.blocks[i].off, Y_BASE - 200, 40, 40),
                 type |-> s.blocks[i].type,
                 contains |-> IF s.blocks[i].type = "question" THEN s.blocks[i].contains
                              ELSE "coin",
                 hit |-> FALSE]]
        StandardEnemies(x, s) ==
            IF s.enemy = "none" THEN <<>>
            ELSE <<[type |-> s.enemy, pos |-> <<Px(x + s.width \div 2), Px(Y_BASE - 50)>>,
                    vel |-> <<Px(-1), 0>>, patrol_range |-> <<Px(x), Px(x + s.width)>>]>>
        StandardPlatforms(x, s) ==
            <<[rect |-> Rect(x, Y_BASE, s.width, s.height), type |-> "ground",
               collision |-> TRUE]>>
            \o (IF s.floating
                THEN <<[rect |-> Rect(x + s.width \div 2, Y_BASE - 150, 100, 20),
                        type |-> "floating", collision |-> TRUE]>>
                ELSE <<>>)
        SegmentDraw(draws, k) == IF k <= Len(draws.segs) THEN draws.segs[k] ELSE PlainSegment
    IN
    LET xs == Steps(STANDARD_SEGMENTS, 200)
    IN  [platforms |-> Flat([k \in DOMAIN xs |-> StandardPlatforms(xs[k], SegmentDraw(d, k))]),
         enemies |-> Flat([k \in DOMAIN xs |-> StandardEnemies(xs[k], SegmentDraw(d, k))]),
         powerups |-> <<>>,
         pipes |-> Flat([k \in DOMAIN xs |-> StandardPipes(xs[k], SegmentDraw(d, k))]),
         blocks |-> Flat([k \in DOMAIN xs |-> StandardBlocks(xs[k], SegmentDraw(d, k))]),
         decorations |-> <<>>,
         checkpoints |-> <<>>]

(***************************************************************************)
(* The other generators.  Of the draws d: d.extra is the outcome of every  *)
(* random() test of the archetype's own loops (placed or not), d.pick      *)
(* the index every random.choice lands on, d.vel the velocity every        *)
(* random.uniform pair lands on, d.current and d.intensity the remaining   *)
(* uniform draws.  The randint draws take their lowest value, the          *)
(* positions of the added enemies are spread evenly over their range.      *)
(***************************************************************************)
\* dict[key] = value on a dict that may lack the key
With(r, key, value) ==
    [k \in DOMAIN r \cup {key} |-> IF k = key THEN value ELSE r[k]]

\* the scaling of _generate_giant_level: a rect, and an enemy
GIANT_ANCHOR == 300

GiantRect(r) ==
    Rect(r.x * 2, (r.y - GIANT_ANCHOR) * 2 + GIANT_ANCHOR, r.w * 2, r.h * 2)

GiantEnemy(enemy) ==
    With([enemy EXCEPT !.pos = <<enemy.pos[1] * 2,
                                 (enemy.pos[2] - Px(GIANT_ANCHOR)) * 2 + Px(GIANT_ANCHOR)>>],
         "size_multiplier", 2)

ICE_FRICTION == 2

(***************************************************************************)
(* generate_level: the dispatch on the level's type, and the zones          *)
(***************************************************************************)
\* _add_photonic_zones
add_photonic_zones(level_type, d) ==
    LET
        ZONE_CONFIGS ==
            {"standard", "water", "fortress", "castle", "airship", "ice", "pipes",
             "desert", "clouds", "final_castle"}
    IN
    [k \in 1..10 |->
        [rect |-> Rect((k - 1) * 500, 0, 500, 600),
         config |-> IF level_type \in ZONE_CONFIGS THEN level_type ELSE "standard",
         intensity |-> d.intensity]]

\* the types of the table that have 'pyramid' as a substring
PyramidTypes == {"pyramid", "pyramid_inside"}

\* the branch of generate_level a type takes, by the generator it calls
Generator(type) ==
    IF type = "standard" THEN "standard"
    ELSE IF type = "water" \/ type = "underwater" THEN "water"
    ELSE IF type = "fortress" THEN "fortress"
    ELSE IF type = "castle" THEN "castle"
    ELSE IF type = "airship" THEN "airship"
    ELSE IF type = "giant" THEN "giant"
    ELSE IF type = "ice" THEN "ice"
    ELSE IF type = "pipes" THEN "pipe"
    ELSE IF type = "desert" \/ type \in PyramidTypes THEN "desert"
    ELSE IF type = "clouds" \/ type = "sky" THEN "sky"
    ELSE IF type = "tanks" \/ type = "battleships" THEN "vehicle"
    ELSE IF type = "final_castle" THEN "bowser_castle"
    ELSE "standard"

\* self.worlds[world_num] of an undefined world raises KeyError
KeyError == [error |-> "KeyError"]

Raised(result) == "error" \in DOMAIN result

SMB3_generate_level(world_num, level_num, d) ==
    LET
        Optional(draws, item) == IF draws.extra THEN <<item>> ELSE <<>>
        Choice(options, draws) == options[((draws.pick - 1) % Len(options)) + 1]
        SMB3_generate_fortress_level(world, given) ==
            LET
                FortressSegment(x, draws) ==
                    [platforms |-> <<[rect |-> Rect(x, 550, 300, 50), type |-> "fortress_floor",
                                      collision |-> TRUE],
                                     [rect |-> Rect(x, 0, 300, 50), type |-> "fortress_ceiling",
                                      collision |-> TRUE]>>,
                     hazards |-> Optional(draws, [type |-> "thwomp", pos |-> <<x + 150, 100>>,
                                              trigger_distance |-> 100, fall_speed |-> 10])
                                 \o Optional(draws, [type |-> "roto_disc", center |-> <<x + 150, 300>>,
                                                 radius |-> 100, speed |-> 5]),
                     enemies |-> Optional(draws, [type |-> "dry_bones", pos |-> <<Px(x + 100), Px(500)>>,
                                              vel |-> <<-50, 0>>,
                                              patrol_range |-> <<Px(x), Px(x + 300)>>])]
            IN
            LET xs == Steps(10, 300)
            IN  [platforms |-> Flat([k \in DOMAIN xs |-> FortressSegment(xs[k], given).platforms]),
                 enemies |-> Flat([k \in DOMAIN xs |-> FortressSegment(xs[k], given).enemies]),
                 powerups |-> <<>>,
                 blocks |-> <<>>,
                 hazards |-> Flat([k \in DOMAIN xs |-> FortressSegment(xs[k], given).hazards]),
                 checkpoints |-> <<>>,
                 boss_room |-> [rect |-> Rect(2700, 200, 300, 350), boss |-> "boom_boom"]]
        SMB3_generate_water_level(world, draws) ==
            LET level == SMB3_generate_standard_level(world, draws)
                added == [i \in 1..20 |->
                            [type |-> Choice(<<"cheep_cheep", "blooper", "big_bertha">>, draws),
                             pos |-> <<Px(100 + 190 * (i - 1)), Px(320)>>,
                             vel |-> draws.vel,
                             patrol_range |-> <<0, Px(4000)>>]]
            IN  With(With([level EXCEPT !.enemies = @ \o added], "water_line", 300),
                     "current", draws.current)
        SMB3_generate_castle_level(world, draws) ==
            LET
                koopa_kids == <<"larry", "morton", "wendy", "iggy", "roy", "lemmy", "ludwig">>
            IN
            LET level == SMB3_generate_fortress_level(world, draws)
                xs == Steps(15, 200)
                bubbles == Flat([k \in DOMAIN xs |->
                                   Optional(draws, [x |-> xs[k], timer |-> 0, height |-> 100])])
                boss == IF world <= 7 THEN koopa_kids[world] ELSE "bowser"
            IN  With(With([level EXCEPT !.boss_room.boss = boss], "lava_y", 550),
                     "lava_bubbles", bubbles)
        SMB3_generate_airship_level(world, given) ==
            LET
                AirshipSegment(x, draws) ==
                    [platforms |-> <<[rect |-> Rect(x, 400, 400, 30), type |-> "airship_deck",
                                      collision |-> TRUE]>>
                                   \o Optional(draws, [rect |-> Rect(x + 200, 300, 100, 20),
                                                   type |-> "mast_platform", collision |-> TRUE]),
                     cannons |-> Flat([c \in 1..4 |->
                                        Optional(draws, [pos |-> <<x + (c - 1) * 100, 380>>,
                                                     type |-> Choice(<<"standard", "giant", "rotating">>, draws),
                                                     fire_rate |-> 60])]),
                     enemies |-> Optional(draws, [type |-> "rocky_wrench",
                                              pos |-> <<Px(x + 50), Px(400)>>,
                                              emerge_timer |-> 0])]
            IN
            LET xs == Steps(10, 500)
            IN  [platforms |-> Flat([k \in DOMAIN xs |-> AirshipSegment(xs[k], given).platforms]),
                 enemies |-> Flat([k \in DOMAIN xs |-> AirshipSegment(xs[k], given).enemies]),
                 powerups |-> <<>>,
                 cannons |-> Flat([k \in DOMAIN xs |-> AirshipSegment(xs[k], given).cannons]),
                 propellers |-> <<>>,
                 checkpoints |-> <<>>,
                 scroll_speed |-> 2]
        SMB3_generate_giant_level(world, draws) ==
            LET level == SMB3_generate_standard_level(world, draws)
            IN  [level EXCEPT
                    !.platforms = [i \in DOMAIN @ |-> [@[i] EXCEPT !.rect = GiantRect(@)]],
                    !.enemies = [i \in DOMAIN @ |-> GiantEnemy(@[i])],
                    !.blocks = [i \in DOMAIN @ |-> [@[i] EXCEPT !.rect = GiantRect(@)]]]
        SMB3_generate_ice_level(world, draws) ==
            LET level == SMB3_generate_standard_level(world, draws)
                xs == Steps(27, 150)
                enemies == [i \in 1..15 |->
                              [type |-> Choice(<<"flurry", "cooligan", "ice_bro">>, draws),
                               pos |-> <<Px(200 + 240 * (i - 1)), Px(200)>>,
                               vel |-> <<draws.vel[1], 0>>,
                               patrol_range |-> <<0, Px(4000)>>]]
                icicles == Flat([k \in DOMAIN xs |->
                                   Optional(draws, [type |-> "icicle", pos |-> <<xs[k], 50>>,
                                                falling |-> FALSE, trigger_distance |-> 50])])
            IN  With([level EXCEPT
                         !.platforms = [i \in DOMAIN @ |->
                                          With([@[i] EXCEPT !.type = "ice"],
                                               "friction", ICE_FRICTION)],
                         !.enemies = enemies],
                     "hazards", icicles)
        \* the pipe maze: the pipe at column c (x = 250 c) and row r (y = 100 + 150 r)
        \* has id 3 c + r when every pipe is placed; connected_to -1 stands for None
        SMB3_generate_pipe_level(world, draws) ==
            LET cells == [n \in 1..48 |-> [x |-> ((n - 1) \div 3) * 250,
                                           y |-> 100 + ((n - 1) % 3) * 150,
                                           id |-> n - 1]]
                xs == Steps(20, 200)
            IN  [platforms |-> Flat([k \in DOMAIN xs |->
                                       Optional(draws, [rect |-> Rect(xs[k], 300, 150, 20),
                                                    type |-> "metal", collision |-> TRUE])]),
                 pipes |-> Flat([n \in DOMAIN cells |->
                                   Optional(draws, [rect |-> Rect(cells[n].x, cells[n].y, 60, 60),
                                                type |-> Choice(<<"green", "red", "yellow">>, draws),
                                                orientation |-> Choice(<<"up", "down", "left", "right">>, draws),
                                                id |-> cells[n].id,
                                                connected_to |-> IF cells[n].id > 0 THEN 0 ELSE -1])]),
                 enemies |-> Flat([n \in DOMAIN cells |->
                                     Optional(draws, [type |-> "piranha_plant",
                                                  pipe_id |-> cells[n].id,
                                                  pos |-> <<Px(cells[n].x + 30), Px(cells[n].y)>>,
                                                  emerge_timer |-> 0])]),
                 powerups |-> <<>>,
                 pipe_network |-> <<>>,
                 checkpoints |-> <<>>]
        SMB3_generate_desert_level(world, draws) ==
            LET level == SMB3_generate_standard_level(world, draws)
                xs == Steps(10, 300)
                quicksand == Flat([k \in DOMAIN xs |->
                                     Optional(draws, [rect |-> Rect(500 + xs[k], 500, 200, 100),
                                                  sink_speed |-> 50])])
                sun == [active |-> TRUE, pos |-> <<400, 100>>, attack_timer |-> 0,
                        attack_cooldown |-> 300]
                retyped(enemy) ==
                    [enemy EXCEPT !.type = Choice(<<"pokey", "lakitu", "spiny", "fire_snake">>, draws)]
            IN  With(With([level EXCEPT !.enemies = [i \in DOMAIN @ |-> retyped(@[i])]],
                          "quicksand", quicksand),
                     "angry_sun", sun)
        SMB3_generate_sky_level(world, draws) ==
            LET xs == Steps(25, 200)
                lifts == Steps(10, 400)
            IN  [platforms |-> Flat([k \in DOMAIN lifts |->
                                       Optional(draws, [rect |-> Rect(500 + lifts[k], 200, 80, 20),
                                                    type |-> "donut_lift", collision |-> TRUE,
                                                    fall_timer |-> 0, falling |-> FALSE])]),
                 enemies |-> [i \in 1..30 |->
                                [type |-> Choice(<<"paragoomba", "paratroopa", "lakitu", "parabeetle">>, draws),
                                 pos |-> <<Px(100 + 160 * (i - 1)), Px(50)>>,
                                 vel |-> draws.vel,
                                 patrol_range |-> <<0, Px(5000)>>]],
                 powerups |-> <<>>,
                 clouds |-> [k \in DOMAIN xs |->
                               [rect |-> Rect(xs[k], 100, 100, 30),
                                type |-> Choice(<<"solid", "bouncy", "moving">>, draws),
                                collision |-> TRUE,
                                speed |-> IF draws.extra THEN draws.vel[1] ELSE 0]],
                 checkpoints |-> <<>>]
        SMB3_generate_vehicle_level(world, draws) ==
            LET xs == Steps(10, 600)
                cannons == Flat([c \in 1..5 |->
                                   Optional(draws, [offset |-> <<(c - 1) * 100, -20>>,
                                                type |-> "rotating", angle |-> 0,
                                                fire_timer |-> 0])])
            IN  [platforms |-> <<>>,
                 enemies |-> Flat([k \in DOMAIN xs |->
                                     Optional(draws, [type |-> "flame_jet",
                                                  pos |-> <<Px(xs[k] + 250), Px(430)>>,
                                                  direction |-> Choice(<<"up", "diagonal">>, draws),
                                                  fire_pattern |-> Choice(<<"continuous", "burst", "wave">>, draws)])]),
                 cannons |-> <<>>,
                 vehicles |-> [k \in DOMAIN xs |->
                                 [rect |-> Rect(xs[k], 450, 500, 100),
                                  type |-> Choice(<<"tank", "battleship">>, draws),
                                  cannons |-> cannons, collision |-> TRUE]],
                 scroll_speed |-> 3,
                 checkpoints |-> <<>>]
        SMB3_generate_bowser_castle(draws) ==
            LET
                \* _get_hazard_params: the parameter dict of a hazard type, by its keys
                get_hazard_params(hazard_type) ==
                    IF hazard_type = "firebar" THEN [length |-> 3, speed |-> 2]
                    ELSE IF hazard_type = "thwomp" THEN [trigger_distance |-> 100, fall_speed |-> 12]
                    ELSE IF hazard_type = "laser"
                         THEN [charge_time |-> 60, fire_duration |-> 30, beam_width |-> 10]
                    ELSE IF hazard_type = "spike_ceiling" THEN [fall_speed |-> 2, rise_speed |-> 1]
                    ELSE <<>>
            IN
            LET xs == Steps(15, 200)
                floor == Steps(20, 40)
            IN  [platforms |-> [k \in DOMAIN xs |->
                                  [rect |-> Rect(xs[k], 500, 150, 50), type |-> "castle_block",
                                   collision |-> TRUE, destructible |-> draws.extra]],
                 enemies |-> <<>>,
                 hazards |-> [k \in DOMAIN xs |->
                                [type |-> Choice(<<"firebar", "thwomp", "laser", "spike_ceiling">>, draws),
                                 pos |-> <<xs[k] + 75, 100>>,
                                 params |-> get_hazard_params(
                                     Choice(<<"firebar", "thwomp", "laser", "spike_ceiling">>, draws))]],
                 bowser_arena |-> [rect |-> Rect(3000, 200, 800, 400),
                                   floor_blocks |-> [k \in DOMAIN floor |->
                                                       [rect |-> Rect(3000 + floor[k], 500, 40, 100),
                                                        hp |-> 3, destroyed |-> FALSE]],
                                   bowser_spawn |-> <<3400, 300>>,
                                   phases |-> 3],
                 checkpoints |-> <<>>]
        Generate(generator, world, draws) ==
            CASE generator = "standard" -> SMB3_generate_standard_level(world, draws)
              [] generator = "water" -> SMB3_generate_water_level(world, draws)
              [] generator = "fortress" -> SMB3_generate_fortress_level(world, draws)
              [] generator = "castle" -> SMB3_generate_castle_level(world, draws)
              [] generator = "airship" -> SMB3_generate_airship_level(world, draws)
              [] generator = "giant" -> SMB3_generate_giant_level(world, draws)
              [] generator = "ice" -> SMB3_generate_ice_level(world, draws)
              [] generator = "pipe" -> SMB3_generate_pipe_level(world, draws)
              [] generator = "desert" -> SMB3_generate_desert_level(world, draws)
              [] generator = "sky" -> SMB3_generate_sky_level(world, draws)
              [] generator = "vehicle" -> SMB3_generate_vehicle_level(world, draws)
              [] generator = "bowser_castle" -> SMB3_generate_bowser_castle(draws)
    IN
    IF world_num \notin DOMAIN worlds THEN KeyError
    ELSE LET level_info == LevelInfoOf(world_num, level_num)
         IN  With(Generate(Generator(level_info.type), world_num, d),
                  "photonic_zones", add_photonic_zones(level_info.type, d))

(***************************************************************************)
(* SMB3Engine: construction.  time and paused are not attributes of        *)
(* SMB3Engine; they keep the values given here.                            *)
(***************************************************************************)
\* SMB3Engine.__init__ and PhotonicGaussianEngine.__init__
SMB3_Constructed ==
    LET
        SMB3_NewMario ==
            [pos |-> <<Px(100), Px(400)>>, vel |-> <<0, 0>>, power |-> "SMALL",
             p_meter |-> 0, on_ground |-> FALSE, facing_right |-> TRUE,
             invincible |-> 0, can_shoot |-> TRUE, shoot_cooldown |-> 0]
    IN
    /\ particles = <<>>
    /\ generation = 0
    /\ state = "WORLD_MAP"
    /\ current_world = 1
    /\ current_level = 1
    /\ lives = 5
    /\ coins = 0
    /\ score = 0
    /\ time = 0
    /\ paused = FALSE
    /\ mario = SMB3_NewMario
    /\ current_level_data = NoLevel
    /\ keys = {}
    /\ call = NoCall

\* which of the two engines was constructed
IsSMB3 == "p_meter" \in DOMAIN mario

\* update_enemy; hop is the outcome of random.random() < 0.01.  An enemy
\* without 'vel' raises KeyError before anything is written.
update_enemy(enemy, target_x, hop) ==
    IF "vel" \notin DOMAIN enemy THEN KeyError
    ELSE LET moved == [enemy EXCEPT !.pos = <<enemy.pos[1] + enemy.vel[1],
                                              enemy.pos[2] + enemy.vel[2]>>]
             turned == IF /\ "patrol_range" \in DOMAIN enemy
                          /\ \/ moved.pos[1] < enemy.patrol_range[1]
                             \/ moved.pos[1] > enemy.patrol_range[2]
                       THEN [moved EXCEPT !.vel = <<-enemy.vel[1], enemy.vel[2]>>]
                       ELSE moved
         IN  IF enemy.type = "lakitu"
             THEN [turned EXCEPT !.pos = <<turned.pos[1]
                                             + Damp(target_x - turned.pos[1], 98),
                                           turned.pos[2]>>]
             ELSE IF /\ enemy.type = "hammer_bro"
                     /\ hop
                     /\ ("on_ground" \in DOMAIN enemy => enemy.on_ground)
             THEN [turned EXCEPT !.vel = <<turned.vel[1], Px(-8)>>]
             ELSE turned

(***************************************************************************)
(* GenSpec: the level generators of both engines, called with any          *)
(* arguments on the constructed engine, and update_enemy called on the     *)
(* enemies of the layout just returned.  call.result is the value          *)
(* returned, or KeyError.                                                  *)
(***************************************************************************)
MaxGenerations == 2

\* segments the standard generator can draw: the narrowest bare one, and
\* wide ones with a floating platform, an enemy, blocks and a pipe
BusySegment(etype, pipe) ==
    [width |-> 400, height |-> 100, floating |-> TRUE, enemy |-> etype,
     blocks |-> <<[off |-> 0, type |-> "brick", contains |-> "coin"],
                  [off |-> 80, type |-> "question", contains |-> "leaf"],
                  [off |-> 360, type |-> "hidden", contains |-> "coin"]>>,
     pipe |-> pipe, enterable |-> TRUE, destination |-> "secret"]

GenInit ==
    /\ SMB3_Constructed \/ Constructed
    /\ pc = "generate"
    /\ budget = [calls |-> MaxGenerations]

GenCall(result, args) ==
    /\ pc = "generate"
    /\ budget.calls > 0
    /\ budget' = [budget EXCEPT !.calls = @ - 1]
    /\ call' = [name |-> "generate_level", args |-> args, result |-> result]
    /\ UNCHANGED <<particles, generation, state, lives, coins, score, time,
                   paused, mario, current_level_data, current_world,
                   current_level, pc, keys>>

\* SMB3Engine.generate_level(world_num, level_num)
CallSMB3GenerateLevel ==
    LET
        \* keys of the table, and one that no world defines
        LevelNums ==
            {LevelKey(1), LevelKey(2), LevelKey(4), LevelKey(7), "castle", "airship",
             "bowser_castle", LevelKey(11)}
        WorldNums == 0..9
        GenDraws ==
            LET
                SegmentDraws ==
                    {<<>>, <<BusySegment("goomba", 80)>>,
                     <<PlainSegment, BusySegment("hammer_bro", 200), BusySegment("none", 0)>>}
            IN
            {[segs |-> s, extra |-> x, pick |-> IF x THEN 2 ELSE 1, vel |-> <<-200, 100>>,
              current |-> 50, intensity |-> 50] :
                s \in SegmentDraws, x \in BOOLEAN}
    IN
    /\ IsSMB3
    /\ \E w \in WorldNums, k \in LevelNums, d \in GenDraws :
        GenCall(SMB3_generate_level(w, k, d),
                [world_num |-> w, level_num |-> k, draws |-> d])

\* MarioForeverEngine.generate_level(world, level)
CallGenerateLevel ==
    /\ ~IsSMB3
    /\ \E w \in {1, 9}, k \in {LevelKey(1), LevelKey(11)}, d \in LevelDraws :
        GenCall(generate_level(d), [world_num |-> w, level_num |-> k, draws |-> d])

\* update_enemy(enemy) on an enemy of the layout generate_level returned,
\* as the loop of update_level calls it
CallUpdateEnemy ==
    /\ IsSMB3
    /\ pc = "generate"
    /\ budget.calls > 0
    /\ call.name = "generate_level"
    /\ ~Raised(call.result)
    /\ \E i \in DOMAIN call.result.enemies, hop \in BOOLEAN :
         call' = [name |-> "update_enemy",
                  args |-> [enemy |-> call.result.enemies[i], hop |-> hop],
                  result |-> update_enemy(call.result.enemies[i], mario.pos[1], hop)]
    /\ budget' = [budget EXCEPT !.calls = @ - 1]
    /\ UNCHANGED <<particles, generation, state, lives, coins, score, time,
                   paused, mario, current_level_data, current_world,
                   current_level, pc, keys>>

GenNext == CallSMB3GenerateLevel \/ CallGenerateLevel \/ CallUpdateEnemy

GenSpec == GenInit /\ [][GenNext]_vars

(***************************************************************************)
(* SMB3Engine as one value: e.mario, e.state, e.level (current_level_data),*)
(* e.current_world, e.current_level, e.particles, e.generation, and        *)
(* e.error, "none" until an exception leaves the method.                   *)
(***************************************************************************)
SMB3_GRAVITY == 50

SMB3_MAX_FALL == 1500

SMB3_WALK == 500

SMB3_RUN == 800

SMB3_FRICTION == 10

\* if self.current_level_data:
Truthy(level) == level # NoLevel

\* level.get(key, [])
Get(level, key) == IF key \in DOMAIN level THEN level[key] ELSE <<>>

\* the mario_rect of update_mario_physics
SMB3_mario_height(m) == IF m.power # "SMALL" THEN 40 ELSE 30

\* the platform loop of update_mario_physics; mario_rect is the one taken
\* before the loop
RECURSIVE SMB3_PlatformLoop(_, _, _, _)
SMB3_PlatformLoop(m, platforms, mario_rect, i) ==
    IF i > Len(platforms) THEN m
    ELSE LET platform == platforms[i]
             landed == [m EXCEPT !.pos = <<m.pos[1], Px(platform.rect.y - mario_rect.h)>>,
                                 !.vel = <<m.vel[1], 0>>,
                                 !.on_ground = TRUE]
             slid == IF "friction" \in DOMAIN platform /\ platform.friction # 0
                     THEN [landed EXCEPT !.vel = <<Damp(m.vel[1], platform.friction), 0>>]
                     ELSE landed
         IN  IF /\ platform.collision
                /\ colliderect(mario_rect, platform.rect)
                /\ m.vel[2] > 0
             THEN SMB3_PlatformLoop(slid, platforms, mario_rect, i + 1)
             ELSE SMB3_PlatformLoop(m, platforms, mario_rect, i + 1)

\* gravity and the position update without the fall cap
SMB3_Integrate_uncapped(m) ==
    LET vy == IF m.on_ground THEN m.vel[2] ELSE m.vel[2] + SMB3_GRAVITY
    IN  [m EXCEPT !.vel = <<m.vel[1], vy>>,
                  !.pos = <<m.pos[1] + m.vel[1], m.pos[2] + vy>>]

\* gravity, the fall cap and the position update of update_mario_physics
SMB3_Integrate(m) ==
    LET vy == Min(IF m.on_ground THEN m.vel[2] ELSE m.vel[2] + SMB3_GRAVITY,
                  SMB3_MAX_FALL)
    IN  [m EXCEPT !.vel = <<m.vel[1], vy>>,
                  !.pos = <<m.pos[1] + m.vel[1], m.pos[2] + vy>>]

SMB3_update_mario_physics(e) ==
    LET
        SMB3_mario_rect(m) ==
            Rect(Trunc(m.pos[1]), Trunc(m.pos[2]), 30, SMB3_mario_height(m))
    IN
    LET m == SMB3_Integrate(e.mario)
    IN  IF Truthy(e.level)
        THEN [e EXCEPT !.mario =
                 SMB3_PlatformLoop([m EXCEPT !.on_ground = FALSE],
                                   Get(e.level, "platforms"), SMB3_mario_rect(m), 1)]
        ELSE [e EXCEPT !.mario = m]

P_METER_MAX == 100

\* update_level: physics, the enemies up to the first failing one, and, when
\* none failed, the P-meter and the invincibility timer
update_level(e, hop) ==
    LET
        \* the index of the first enemy update_enemy fails on, or 0
        FirstFailing(enemies) ==
            IF \A i \in DOMAIN enemies : "vel" \in DOMAIN enemies[i] THEN 0
            ELSE CHOOSE i \in DOMAIN enemies :
                    /\ "vel" \notin DOMAIN enemies[i]
                    /\ \A j \in 1..(i - 1) : "vel" \in DOMAIN enemies[j]
    IN
    LET e1 == SMB3_update_mario_physics(e)
        enemies == IF Truthy(e1.level) THEN Get(e1.level, "enemies") ELSE <<>>
        failing == FirstFailing(enemies)
        updated == [i \in DOMAIN enemies |->
                      IF failing = 0 \/ i < failing
                      THEN update_enemy(enemies[i], e1.mario.pos[1], hop)
                      ELSE enemies[i]]
        e2 == IF enemies = <<>> THEN e1 ELSE [e1 EXCEPT !.level.enemies = updated]
        p_meter == IF Abs(e2.mario.vel[1]) > Px(4)
                   THEN Min(P_METER_MAX, e2.mario.p_meter + 2)
                   ELSE Max(0, e2.mario.p_meter - 1)
        invincible == IF e2.mario.invincible > 0 THEN e2.mario.invincible - 1
                      ELSE e2.mario.invincible
    IN  IF failing # 0 THEN [e2 EXCEPT !.error = "KeyError"]
        ELSE [e2 EXCEPT !.mario.p_meter = p_meter, !.mario.invincible = invincible]

\* update
update(e, hop) == IF e.state = "LEVEL" THEN update_level(e, hop) ELSE e

(***************************************************************************)
(* SMB3Engine.handle_input; ks is the set of keys held, d the draws of a   *)
(* level generated on RETURN                                               *)
(***************************************************************************)
SMB3_JUMP == 1200

SMB3_FROG_JUMP == 1500

SMB3_P_JUMP == 1400

SMB3_SHOOT_COOLDOWN == 20

SMB3_Jump(e, ks, rnd) ==
    LET
        SMB3_Jumps(m, held) == "space" \in held /\ m.on_ground
    IN
    IF ~SMB3_Jumps(e.mario, ks) THEN e
    ELSE LET jump_power == IF e.mario.power = "FROG" THEN SMB3_FROG_JUMP
                           ELSE IF e.mario.p_meter >= P_METER_MAX THEN SMB3_P_JUMP
                           ELSE SMB3_JUMP
         IN  Emit([e EXCEPT !.mario.vel = <<e.mario.vel[1], -jump_power>>],
                  <<e.mario.pos[1] + Px(15), e.mario.pos[2] + Px(40)>>,
                  10 * 10, rnd)

\* shoot_fireball, throw_hammer, tail_whip
SMB3_Attack(e, rnd) ==
    LET m == e.mario
        front == m.pos[1] + (IF m.facing_right THEN Px(30) ELSE 0)
    IN  IF m.power = "FIRE" THEN Emit(e, <<front, m.pos[2] + Px(20)>>, 20, rnd)
        ELSE IF m.power = "HAMMER" THEN Emit(e, <<front, m.pos[2]>>, 15, rnd)
        ELSE IF m.power \in {"RACCOON", "TANOOKI"}
        THEN Emit(e, <<m.pos[1] + Px(15), m.pos[2] + Px(20)>>, 30, rnd)
        ELSE e

\* the attack launched whenever the key is held, with no cooldown
SMB3_Fire_unlimited(e, ks, rnd) ==
    IF "lctrl" \in ks THEN SMB3_Attack(e, rnd) ELSE e

SMB3_Fire(e, ks, rnd) ==
    IF "lctrl" \in ks /\ e.mario.can_shoot
    THEN [SMB3_Attack(e, rnd) EXCEPT !.mario.can_shoot = FALSE,
                                     !.mario.shoot_cooldown = SMB3_SHOOT_COOLDOWN]
    ELSE e

SMB3_handle_input(e, ks, rnd, d) ==
    LET
        \* the WORLD_MAP branch: the level pointer, and RETURN entering the level
        SMB3_Navigate ==
            IF "left" \in ks
            THEN [e EXCEPT !.current_level = Max(1, e.current_level - 1)]
            ELSE IF "right" \in ks
            THEN [e EXCEPT !.current_level = Min(Len(worlds[e.current_world]),
                                                 e.current_level + 1)]
            ELSE IF "return" \in ks
            THEN [e EXCEPT !.state = "LEVEL",
                           !.level = SMB3_generate_level(e.current_world,
                                                         LevelKey(e.current_level), d)]
            ELSE e
        SMB3_Cooldown(m) ==
            IF m.shoot_cooldown > 0 THEN [m EXCEPT !.shoot_cooldown = @ - 1]
            ELSE [m EXCEPT !.can_shoot = TRUE]
        SMB3_Steer(m, held) ==
            IF "left" \in held
            THEN [m EXCEPT !.vel = <<IF "lshift" \in held THEN -SMB3_RUN ELSE -SMB3_WALK, m.vel[2]>>,
                           !.facing_right = FALSE]
            ELSE IF "right" \in held
            THEN [m EXCEPT !.vel = <<IF "lshift" \in held THEN SMB3_RUN ELSE SMB3_WALK, m.vel[2]>>,
                           !.facing_right = TRUE]
            ELSE [m EXCEPT !.vel = <<Damp(m.vel[1], SMB3_FRICTION), m.vel[2]>>]
    IN
    IF e.state = "LEVEL"
    THEN LET e1 == [e EXCEPT !.mario = SMB3_Steer(e.mario, ks)]
             e2 == SMB3_Jump(e1, ks, rnd)
             e3 == SMB3_Fire(e2, ks, rnd)
         IN  [e3 EXCEPT !.mario = SMB3_Cooldown(e3.mario)]
    ELSE IF e.state = "WORLD_MAP" THEN SMB3_Navigate
    ELSE e

(***************************************************************************)
(* The KEYDOWN handling of SMB3Engine.run; key is "escape", "p", the       *)
(* decimal of a digit key, or "none" when no key went down                 *)
(***************************************************************************)
SMB3_keydown(e, key) ==
    LET
        Position(seq, x) == CHOOSE i \in DOMAIN seq : seq[i] = x
        SMB3_Escape(engine, pressed) ==
            IF pressed # "escape" THEN engine
            ELSE IF engine.state = "LEVEL" THEN [engine EXCEPT !.state = "WORLD_MAP"]
            ELSE IF engine.state = "WORLD_MAP" THEN [engine EXCEPT !.state = "LEVEL"]
            ELSE engine
        SMB3_SwitchWorld(engine, pressed) ==
            LET
                DigitKeys == {IntKeys[n] : n \in 1..8}
            IN
            IF pressed \in DigitKeys
            THEN [engine EXCEPT !.current_world = Position(IntKeys, pressed),
                                !.current_level = 1,
                                !.state = "WORLD_MAP"]
            ELSE engine
        SMB3_CyclePower(engine, pressed) ==
            LET
                \* powers[(current_index + 1) % len(powers)]
                NextPower(power) ==
                    LET
                        PowerUp == <<"SMALL", "SUPER", "FIRE", "RACCOON",
                                     "TANOOKI", "HAMMER", "FROG", "CLOUD">>
                    IN
                    PowerUp[(Position(PowerUp, power) % Len(PowerUp)) + 1]
            IN
            IF pressed = "p"
            THEN [engine EXCEPT !.mario.power = NextPower(engine.mario.power)]
            ELSE engine
    IN
    SMB3_CyclePower(SMB3_SwitchWorld(SMB3_Escape(e, key), key), key)

(***************************************************************************)
(* SMB3Engine.render_game: what it does to the particles.  A burst's       *)
(* randint offset along a platform is 0; glow is the count the question    *)
(* blocks' bursts draw (int(glow / 10)), kick the velocity change          *)
(* evolve_particles draws.                                                 *)
(***************************************************************************)
SCREEN_WIDTH == 800

WORLD_MAP_DECAY == 3

LEVEL_DECAY == 2

LEVEL_PARTICLE_GRAVITY == 10

\* one burst of count at each point of the ring around centre
RECURSIVE EmitRing(_, _, _, _, _, _)
EmitRing(e, centre, ring, count, rnd, j) ==
    IF j > Len(ring) THEN e
    ELSE EmitRing(Emit(e, <<centre[1] + ring[j][1], centre[2] + ring[j][2]>>, count, rnd),
                  centre, ring, count, rnd, j + 1)

\* times bursts of count at one place, drawing the same velocity: they
\* append min(count * times, photon_limit - len(particles)) particles
Bursts(e, pos, count, times, rnd) == Emit(e, pos, count * times, rnd)

SMB3_Pass(ps, decay, gravity) ==
    LET
        \* the particle loop of a render: move, gravity, decay, removal
        SMB3_Age(p, by, pull) ==
            [p EXCEPT !.pos = <<p.pos[1] + p.vel[1], p.pos[2] + p.vel[2]>>,
                      !.vel = <<p.vel[1], p.vel[2] + pull>>,
                      !.life = p.life - by]
    IN
    LET alive(q) == ~Expired(q)
    IN  SelectSeq([i \in DOMAIN ps |-> SMB3_Age(ps[i], decay, gravity)], alive)

render_world_map(e, rnd) ==
    LET
        \* 30 (cos, sin) of the five angles 72 degrees apart, from angle 0
        NodeRing ==
            <<<<3000, 0>>, <<927, 2853>>, <<-2427, 1763>>, <<-2427, -1763>>, <<927, -2853>>>>
        \* _calculate_node_positions: the position of node i (from 0) of num_nodes
        NodePosition(i, num_nodes) ==
            LET cols == (num_nodes + 2) \div 3
                row == i \div cols
                col == i % cols
                x == 150 + col * 150
            IN  <<IF row % 2 = 1 THEN SCREEN_WIDTH - x ELSE x, 200 + row * 120>>
    IN
    LET num_nodes == Len(worlds[e.current_world])
        node == NodePosition(e.current_level - 1, num_nodes)
        e1 == IF e.current_level <= num_nodes
              THEN EmitRing(e, <<Px(node[1]), Px(node[2])>>, NodeRing, 2, rnd, 1)
              ELSE e
    IN  [e1 EXCEPT !.particles = SMB3_Pass(@, WORLD_MAP_DECAY, 0)]

OnScreenX(rect, camera_x) == Trunc(Px(rect.x) - camera_x)

OnScreen(rect, camera_x) ==
    /\ OnScreenX(rect, camera_x) + rect.w > 0
    /\ OnScreenX(rect, camera_x) < SCREEN_WIDTH

\* the glow of the platforms: 5 bursts of 3 on each one on screen (a burst
\* changes the particle list alone)
RECURSIVE PlatformGlow(_, _, _, _, _)
PlatformGlow(e, platforms, camera_x, rnd, i) ==
    IF i > Len(platforms) THEN e
    ELSE LET rect == platforms[i].rect
             lit == IF OnScreen(rect, camera_x)
                    THEN Bursts(e, <<Px(OnScreenX(rect, camera_x)), Px(rect.y)>>,
                                3, 5, rnd)
                    ELSE e
         IN  IF lit.particles = e.particles
             THEN PlatformGlow(e, platforms, camera_x, rnd, i + 1)
             ELSE PlatformGlow(lit, platforms, camera_x, rnd, i + 1)

\* the glow of the question blocks not yet hit
RECURSIVE BlockGlow(_, _, _, _, _, _)
BlockGlow(e, blocks, camera_x, glow, rnd, i) ==
    IF i > Len(blocks) THEN e
    ELSE LET block == blocks[i]
             x == OnScreenX(block.rect, camera_x)
             lit == IF /\ ~block.hit
                       /\ OnScreen(block.rect, camera_x)
                       /\ block.type = "question"
                    THEN Emit(e, <<Px(x + block.rect.w \div 2),
                                   Px(block.rect.y + block.rect.h \div 2)>>, glow, rnd)
                    ELSE e
         IN  IF lit.particles = e.particles
             THEN BlockGlow(e, blocks, camera_x, glow, rnd, i + 1)
             ELSE BlockGlow(lit, blocks, camera_x, glow, rnd, i + 1)

\* the trail of the enemies on screen
RECURSIVE EnemyTrail(_, _, _, _, _)
EnemyTrail(e, enemies, camera_x, rnd, i) ==
    IF i > Len(enemies) THEN e
    ELSE LET enemy == enemies[i]
             ex == enemy.pos[1] - camera_x
             size == IF "size_multiplier" \in DOMAIN enemy THEN enemy.size_multiplier
                     ELSE 1
             lit == IF 0 < ex /\ ex < Px(SCREEN_WIDTH)
                    THEN Emit(e, <<ex + Px(15 * size), enemy.pos[2] + Px(30 * size)>>,
                              5, rnd)
                    ELSE e
         IN  IF lit.particles = e.particles
             THEN EnemyTrail(e, enemies, camera_x, rnd, i + 1)
             ELSE EnemyTrail(lit, enemies, camera_x, rnd, i + 1)

SMB3_render_level(e, glow, kick, rnd) ==
    LET
        \* the speed particles of the P-meter and the invincibility stars
        MarioEffects(eng, camera_x, draw) ==
            LET
                \* 40 (cos, sin) of the ten angles 36 degrees apart, from angle 0
                StarRing ==
                    <<<<4000, 0>>, <<3236, 2351>>, <<1236, 3804>>, <<-1236, 3804>>,
                      <<-3236, 2351>>, <<-4000, 0>>, <<-3236, -2351>>, <<-1236, -3804>>,
                      <<1236, -3804>>, <<3236, -2351>>>>
            IN
            LET m == eng.mario
                mx == m.pos[1] - camera_x
                height == SMB3_mario_height(m)
                e1 == IF m.p_meter > 0
                      THEN Bursts(eng, <<mx, m.pos[2] + Px(height)>>, 10, m.p_meter \div 20, draw)
                      ELSE eng
                e2 == IF m.invincible > 0
                      THEN EmitRing(e1, <<mx + Px(15), m.pos[2] + Px(height \div 2)>>,
                                    StarRing, 5, draw, 1)
                      ELSE e1
            IN  IF 0 <= mx /\ mx <= Px(SCREEN_WIDTH) THEN e2 ELSE eng
        \* camera_x, and rect.x -= camera_x
        SMB3_Camera(m) == Max(0, m.pos[1] - Px(SCREEN_WIDTH \div 2))
    IN
    IF ~Truthy(e.level) THEN e
    ELSE LET camera_x == SMB3_Camera(e.mario)
             e1 == PlatformGlow(e, Get(e.level, "platforms"), camera_x, rnd, 1)
             e2 == BlockGlow(e1, Get(e.level, "blocks"), camera_x, glow, rnd, 1)
             e3 == EnemyTrail(e2, Get(e.level, "enemies"), camera_x, rnd, 1)
             e4 == MarioEffects(e3, camera_x, rnd)
             e5 == SMB3_evolve_particles(e4, kick)
         IN  [e5 EXCEPT !.particles =
                 SMB3_Pass(@, LEVEL_DECAY, LEVEL_PARTICLE_GRAVITY)]

render_game(e, glow, kick, rnd) ==
    IF e.state = "WORLD_MAP" THEN render_world_map(e, rnd)
    ELSE IF e.state = "LEVEL" THEN SMB3_render_level(e, glow, kick, rnd)
    ELSE e

(***************************************************************************)
(* SMB3Spec: SMB3Engine.run from construction, one step per statement of   *)
(* the loop body.  The player's input (one KEYDOWN event at most, and the  *)
(* keys held from then on) changes in the first MaxBusyTicks frames only;  *)
(* the run is followed for MaxTicks frames.                                *)
(***************************************************************************)
MaxTicks == 14

MaxBusyTicks == 3

SMB3_Eng ==
    [mario |-> mario, state |-> state, level |-> current_level_data,
     current_world |-> current_world, current_level |-> current_level,
     particles |-> particles, generation |-> generation, error |-> "none"]

SMB3_SetEng(e) ==
    /\ mario' = e.mario
    /\ state' = e.state
    /\ current_level_data' = e.level
    /\ current_world' = e.current_world
    /\ current_level' = e.current_level
    /\ particles' = e.particles
    /\ generation' = e.generation
    /\ UNCHANGED <<lives, coins, score, time, paused>>

SMB3_Called(name, key) ==
    [name |-> name, key |-> key, pre |-> SMB3_Eng, log |-> <<>>]

SMB3Init ==
    /\ SMB3_Constructed
    /\ pc = "events"
    /\ budget = [ticks |-> MaxTicks, busy |-> MaxBusyTicks]

\* for event in pygame.event.get()
SMB3Events ==
    LET
        \* the key that went down and the keys held, frame by frame
        SMB3_Inputs ==
            {<<"none", {}>>, <<"escape", {}>>, <<"escape", {"left", "lshift"}>>,
             <<"p", {}>>, <<"p", {"lctrl"}>>, <<IntKeys[4], {}>>,
             <<"none", {"return"}>>, <<"none", {"left"}>>, <<"none", {"left", "lshift"}>>,
             <<"none", {"right"}>>, <<"none", {"space"}>>}
    IN
    /\ pc = "events"
    /\ budget.ticks > 0
    /\ \E input \in {<<"none", keys>>} \cup (IF budget.busy > 0 THEN SMB3_Inputs ELSE {}) :
        /\ keys' = input[2]
        /\ SMB3_SetEng(SMB3_keydown(SMB3_Eng, input[1]))
        /\ call' = SMB3_Called("keydown", input[1])
    /\ budget' = [ticks |-> budget.ticks - 1, busy |-> Max(0, budget.busy - 1)]
    /\ pc' = "input"

\* self.handle_input(keys)
SMB3HandleInput ==
    LET
        \* whether handle_input generates a level
        Enters(e, ks) ==
            e.state = "WORLD_MAP" /\ "return" \in ks /\ ks \cap {"left", "right"} = {}
        \* the draws of the levels entered during the run
        RunDraws ==
            {[segs |-> s, extra |-> TRUE, pick |-> 1, vel |-> <<-200, 100>>,
              current |-> 50, intensity |-> 50] : s \in {<<>>, <<BusySegment("goomba", 80)>>}}
    IN
    /\ pc = "input"
    /\ \E v \in RandVels :
       \E d \in IF Enters(SMB3_Eng, keys) THEN RunDraws ELSE {CHOOSE d \in RunDraws : TRUE} :
        SMB3_SetEng(SMB3_handle_input(SMB3_Eng, keys, Rnd(v, NoLevel), d))
    /\ call' = SMB3_Called("handle_input", "none")
    /\ pc' = "update"
    /\ UNCHANGED <<keys, budget>>

\* self.update()
SMB3Update ==
    LET
        HopDraws(e) ==
            IF Truthy(e.level)
               /\ \E i \in DOMAIN Get(e.level, "enemies") : e.level.enemies[i].type = "hammer_bro"
            THEN BOOLEAN ELSE {FALSE}
    IN
    /\ pc = "update"
    /\ \E hop \in HopDraws(SMB3_Eng) :
        LET e == update(SMB3_Eng, hop)
        IN  /\ SMB3_SetEng(e)
            /\ pc' = IF e.error = "none" THEN "render" ELSE "crashed"
    /\ call' = SMB3_Called("update", "none")
    /\ UNCHANGED <<keys, budget>>

\* self.render_game()
SMB3Render ==
    LET
        Kicks == {<<50, -50>>}
        GlowCounts == {2}
    IN
    /\ pc = "render"
    /\ \E v \in RandVels, glow \in GlowCounts, kick \in Kicks :
        SMB3_SetEng(render_game(SMB3_Eng, glow, kick, Rnd(v, NoLevel)))
    /\ call' = SMB3_Called("render_game", "none")
    /\ pc' = "events"
    /\ UNCHANGED <<keys, budget>>

SMB3Next == SMB3Events \/ SMB3HandleInput \/ SMB3Update \/ SMB3Render

SMB3Spec == SMB3Init /\ [][SMB3Next]_vars

(***************************************************************************)
(* PlaySpec: the input and update statements of the loop of run, tick by   *)
(* tick, of either engine in the middle of play.  The SMB3Engine scenes    *)
(* are those the debug keys of run give within a few frames (ESCAPE enters *)
(* LEVEL with no layout, RETURN with the layout of level 1-1, P cycles the *)
(* power); the MarioForeverEngine scenes are the spawn over a gap or over  *)
(* ground and the situations of ApiSpec.  The keys held are chosen during  *)
(* the first ticks and kept afterwards.  call.jumps counts the jump        *)
(* impulses since the jump key was last up (2 stands for 2 or more).       *)
(***************************************************************************)
MaxPlayTicks == 72

MaxPlayBusy == 2

PlayInit ==
    LET
        Bare == [gap |-> TRUE, plat |-> 0, block_y |-> 300, contents |-> <<>>,
                 enemy |-> 0, etype |-> "goomba", pipe |-> 0, enterable |-> TRUE]
        PlayDraws == [segs |-> <<>>, extra |-> FALSE, pick |-> 1, vel |-> <<-200, 100>>,
                      current |-> 50, intensity |-> 50]
    IN
    /\ \/ /\ \E power \in {"SMALL", "FIRE", "HAMMER", "FROG"} :
               mario = [pos |-> <<Px(100), Px(400)>>, vel |-> <<0, 0>>, power |-> power,
                        p_meter |-> 0, on_ground |-> FALSE, facing_right |-> TRUE,
                        invincible |-> 0, can_shoot |-> TRUE, shoot_cooldown |-> 0]
          /\ current_level_data \in {NoLevel, SMB3_generate_level(1, LevelKey(1), PlayDraws)}
          /\ lives = 5
          /\ time = 0
          /\ particles = <<>>
       \/ /\ \E sc \in {s \in Scenes : /\ s.state = "LEVEL"
                                       /\ s.mario.power \in {"SMALL", "FIRE"}
                                       /\ s.mario.invincible = 0
                                       /\ s.lives = 3
                                       /\ s.time = 400}
                       \cup {[mario |-> NewMario, level |-> generate_level(<<Bare>>),
                              particles |-> <<>>]} :
               /\ mario = sc.mario
               /\ current_level_data = sc.level
               /\ particles = sc.particles
          /\ lives = 3
          /\ time = 400
    /\ state = "LEVEL"
    /\ coins = 0
    /\ score = 0
    /\ paused = FALSE
    /\ generation = 0
    /\ current_world = 1
    /\ current_level = 1
    /\ keys = {}
    /\ call = [name |-> "scene", pre |-> <<>>, log |-> <<>>, jumps |-> 0]
    /\ pc = "play_input"
    /\ budget = [ticks |-> MaxPlayTicks, busy |-> MaxPlayBusy]

\* self.handle_input(keys) of SMB3Engine.run; in MarioForeverEngine.run the
\* guard of the update phase and, under it, self.handle_input()
PlayInput ==
    LET
        PlayInputs ==
            IF IsSMB3
            THEN {{}, {"space"}, {"lctrl"}, {"space", "lctrl"}, {"right", "lshift"}}
            ELSE {{}, {"jump"}, {"run"}, {"jump", "run", "right"}, {"pause"}}
        jump_key == IF IsSMB3 THEN "space" ELSE "jump"
        Jumps(ks, before, after) ==
            IF jump_key \notin ks THEN 0
            ELSE IF after.vel[2] # before.vel[2] THEN Min(2, call.jumps + 1)
            ELSE call.jumps
        PlayDraws == [segs |-> <<>>, extra |-> FALSE, pick |-> 1, vel |-> <<-200, 100>>,
                      current |-> 50, intensity |-> 50]
    IN
    /\ pc = "play_input"
    /\ budget.ticks > 0
    /\ \E ks \in IF budget.busy > 0 THEN PlayInputs ELSE {keys}, v \in RandVels :
        /\ keys' = ks
        /\ IF IsSMB3
           THEN LET e == SMB3_handle_input(SMB3_Eng, ks, Rnd(v, NoLevel), PlayDraws)
                IN  /\ SMB3_SetEng(e)
                    /\ call' = [name |-> "handle_input", key |-> "none", pre |-> SMB3_Eng,
                                log |-> <<>>, jumps |-> Jumps(ks, mario, e.mario)]
                    /\ pc' = "play_update"
           ELSE IF state = "LEVEL" /\ ~paused
           THEN LET e == handle_input(Eng, ks, Rnd(v, NoLevel))
                IN  /\ SetEng(e)
                    /\ call' = [name |-> "handle_input", pre |-> Eng, log |-> e.log,
                                jumps |-> Jumps(ks, mario, e.mario)]
                    /\ pc' = "play_update"
                    /\ UNCHANGED <<generation, current_world, current_level>>
           ELSE /\ call' = [name |-> "skip", pre |-> Eng, log |-> <<>>,
                            jumps |-> Jumps(ks, mario, mario)]
                /\ pc' = "play_input"
                /\ UNCHANGED <<particles, generation, state, lives, coins, score, time,
                               paused, mario, current_level_data, current_world,
                               current_level>>
    /\ budget' = [ticks |-> budget.ticks - 1, busy |-> Max(0, budget.busy - 1)]

\* self.update() of SMB3Engine.run; in MarioForeverEngine.run the rest of
\* the update phase: update_mario_physics, the timer and the invincibility
\* countdown.  The clock falls on a whole second only while the keys change.
PlayUpdate ==
    /\ pc = "play_update"
    /\ IF IsSMB3
       THEN LET e == update(SMB3_Eng, FALSE)
            IN  /\ SMB3_SetEng(e)
                /\ call' = [name |-> "update", key |-> "none", pre |-> SMB3_Eng,
                            log |-> <<>>, jumps |-> call.jumps]
                /\ pc' = IF e.error = "none" THEN "play_input" ELSE "crashed"
       ELSE \E v \in RandVels, sec \in IF budget.busy > 0 THEN BOOLEAN ELSE {FALSE} :
              LET Tick(rnd) ==
                      UpdateInvincibility(
                          UpdateTimer(update_mario_physics(Eng, rnd), sec, rnd))
              IN  \E lv \in ResetLayouts(Tick(Rnd(v, NoLevel))) :
                    LET e == Tick(Rnd(v, lv))
                    IN  /\ SetEng(e)
                        /\ call' = [name |-> "update", pre |-> Eng, log |-> e.log,
                                    jumps |-> call.jumps]
                        /\ pc' = "play_input"
                        /\ UNCHANGED <<generation, current_world, current_level>>
    /\ UNCHANGED <<keys, budget>>

PlayNext == PlayInput \/ PlayUpdate

PlaySpec == PlayInit /\ [][PlayNext]_vars

(***************************************************************************)
(* Claims about the particle engine (checked under PhotonSpec)             *)
(***************************************************************************)

\* C1: after any sequence of emit_photon_burst calls (counts >= 0) interleaved
\* with particle update passes, the population never exceeds photon_limit.
C1_PopulationCap == NumParticles(particles) <= photon_limit

\* a burst that asked for more than the room left, and filled the population
C1_Witness ==
    /\ call.name = "emit"
    /\ call.count > photon_limit - call.before
    /\ NumParticles(particles) = photon_limit

\* C2: emit_photon_burst with count c on a population of n <= cap particles
\* adds exactly min(c, cap - n) particles, each with life 255, and leaves every
\* particle that was there before in place and unmodified.
C2_EmitAddsClamped ==
    [][call'.name = "emit" =>
        LET n == NumParticles(particles)
        IN  /\ NumParticles(particles') = n + Min(call'.count, photon_limit - n)
            /\ Len(particles') >= Len(particles)
            /\ SubSeq(particles', 1, Len(particles)) = particles
            /\ \A i \in (Len(particles) + 1)..Len(particles') :
                   particles'[i].life = PARTICLE_LIFE]_vars

\* 20 asked for at cap - 5: exactly 5 were created
C2_Witness ==
    /\ call.name = "emit"
    /\ call.count = 20
    /\ call.before = photon_limit - 5
    /\ NumParticles(particles) = call.before + 5

\* C3: on every particle update pass each surviving particle's life is
\* strictly lower than before the pass, and no particle whose life has
\* reached 0 or below is left in the population when the pass ends.
C3_LifeDecreasesAndExpires ==
    [][call'.name = "pass" =>
        LET d == Len(particles) - Len(particles')
        IN  /\ d >= 0
            /\ \A j \in 1..Len(particles') :
                   /\ particles'[j].n = particles[j + d].n
                   /\ particles'[j].life < particles[j + d].life
                   /\ particles'[j].life > 0
            /\ \A i \in 1..d : particles[i].life - PARTICLE_DECAY <= 0]_vars

\* a pass that removed expired particles and kept younger ones
C3_Witness ==
    /\ call.name = "pass"
    /\ particles # <<>>
    /\ NumParticles(particles) < call.before

(***************************************************************************)
(* Claims about evolve_particles (checked under EvolveSpec)                *)
(***************************************************************************)
\* C21: a call of evolve_particles leaves the gameplay state alone, keeps the
\* number of particles and every particle's position and life, and leaves
\* the generation as it was or one higher; only velocities may differ
C21_EvolveOnlyPerturbsVelocities ==
    [][LET
           \* the list without its velocities: the runs of consecutive
           \* particles that hold the same life and position
           RECURSIVE Outline(_, _)
           Outline(ps, i) ==
               IF i > Len(ps) THEN <<>>
               ELSE LET rest == Outline(ps, i + 1)
                        head == [n |-> ps[i].n, life |-> ps[i].life, pos |-> ps[i].pos]
                    IN  IF rest # <<>> /\ rest[1].life = head.life
                                       /\ rest[1].pos = head.pos
                        THEN <<[head EXCEPT !.n = @ + rest[1].n]>> \o Tail(rest)
                        ELSE <<head>> \o rest
       IN
       call'.name = "evolve" =>
          /\ UNCHANGED <<state, lives, coins, score, time, paused, mario,
                         current_level_data, current_world, current_level>>
          /\ NumParticles(particles') = NumParticles(particles)
          /\ Outline(particles', 1) = Outline(particles, 1)
          /\ generation' >= generation
          /\ generation' <= generation + 1
    ]_vars

\* a call on more than 100 particles gathered closely enough has changed a
\* velocity and advanced the generation
C21_Witness ==
    /\ call.name = "evolve"
    /\ call.before > EVOLVE_ABOVE
    /\ generation = 8
    /\ \E i \in DOMAIN particles : particles[i].vel = <<-50, -150>>

(***************************************************************************)
(* Claims about the character (checked under ApiSpec)                      *)
(***************************************************************************)
\* two boxes share interior points
Overlaps(a, b) ==
    ~(a.x + a.w <= b.x \/ b.x + b.w <= a.x \/ a.y + a.h <= b.y \/ b.y + b.h <= a.y)

Box(e) == get_mario_rect(e.mario)

OverlappedPlatforms(e) ==
    {i \in DOMAIN e.level.platforms :
        e.level.platforms[i].collision /\ Overlaps(Box(e), e.level.platforms[i].rect)}

OverlappedBlocks(e) ==
    {i \in DOMAIN e.level.blocks :
        ~e.level.blocks[i].hit /\ Overlaps(Box(e), e.level.blocks[i].rect)}

OverlappedEnemies(e) ==
    {i \in DOMAIN e.level.enemies : Overlaps(Box(e), EnemyRect(e.level.enemies[i]))}

\* the step ran check_collisions once; c.pre is the engine as the call found it
CollisionCall(c) == c.name \in {"check_collisions", "update_mario_physics"}

\* the calls of damage_mario of a step that found a tier above Small and the
\* timer at 0, and the first strikes of a star block
Demotions(log) ==
    {i \in DOMAIN log : /\ log[i].op = "damage_mario"
                        /\ log[i].power # "SMALL"
                        /\ log[i].invincible = 0}

StarPickups(log) ==
    {i \in DOMAIN log : /\ log[i].op = "hit_block"
                        /\ log[i].type = "question"
                        /\ ~log[i].was_hit
                        /\ log[i].contains = "star"}

\* C4 as stated: the invincibility timer never rises except by a star pickup
\* (it only falls, and at 0 it stays 0 until a star is picked up).
C4_TimerRaisedOnlyByStar ==
    [][mario'.invincible > mario.invincible => StarPickups(call'.log) # {}]_vars

\* C4, amended: the invincibility timer is never negative; a step raises it
\* only by a star pickup, to 600, or by damage taken at a tier above Small, to
\* 120; and the per-tick update lowers a positive timer by exactly 1 and
\* leaves a timer of 0 at 0.
C4_TimerRaisedOnlyByStarOrDamage ==
    [][/\ mario'.invincible >= 0
       /\ mario'.invincible > mario.invincible =>
            \/ StarPickups(call'.log) # {} /\ mario'.invincible = STAR_INVINCIBLE
            \/ Demotions(call'.log) # {} /\ mario'.invincible = POST_DAMAGE_INVINCIBLE
       /\ call'.name = "update_invincibility" =>
            mario'.invincible = Max(0, mario.invincible - 1)]_vars

\* a collision pass found the timer at 0 and damage at a tier above Small
\* left it at 120
C4_Witness ==
    /\ call.name = "update_mario_physics"
    /\ call.pre.mario.invincible = 0
    /\ Demotions(call.log) # {}
    /\ StarPickups(call.log) = {}
    /\ mario.invincible = POST_DAMAGE_INVINCIBLE

\* C5: whenever damage_mario is called with the tier above Small and the
\* timer at 0 (damage is taken), the step ends with tier Small, timer 120
\* and the lives it began with.
C5_DamageAboveSmallDemotes ==
    [][\A i \in Demotions(call'.log) :
          /\ mario'.power = "SMALL"
          /\ mario'.invincible = POST_DAMAGE_INVINCIBLE
          /\ lives' = call'.log[i].lives
          /\ lives' = lives]_vars

\* damage taken while Fire: tier Small, timer 120
C5_Witness ==
    /\ \E i \in Demotions(call.log) : call.log[i].power = "FIRE"
    /\ mario.power = "SMALL"
    /\ mario.invincible = POST_DAMAGE_INVINCIBLE

\* C6 as stated: one check_collisions call on a Small character with timer 0
\* in non-stomp contact with enemies lowers lives by exactly 1 and leaves the
\* tier Small, however many enemies overlap.
C6_SmallLosesOneLife ==
    [][LET
           \* the character is Small with the timer at 0, overlaps an enemy, no
           \* overlapped enemy is in stomp geometry, and no block is there to be struck
           C6Case(e) ==
               /\ e.level.loaded
               /\ e.mario.power = "SMALL"
               /\ e.mario.invincible = 0
               /\ OverlappedEnemies(e) # {}
               /\ \A i \in OverlappedEnemies(e) :
                     ~IsStomp(e.mario, Box(e), EnemyRect(e.level.enemies[i]))
               /\ OverlappedBlocks(e) = {}
       IN
       CollisionCall(call') /\ C6Case(call'.pre) =>
          lives' = lives - 1 /\ mario'.power = "SMALL"
    ]_vars

\* C7 as stated: with no level loaded update_mario_physics leaves position
\* and velocity as they were.
C7_NoLevelPhysicsNoOp ==
    [][call'.name = "update_mario_physics" /\ ~current_level_data.loaded =>
          mario'.pos = mario.pos /\ mario'.vel = mario.vel]_vars

\* C8 as stated: one check_collisions call on a character at rest on a
\* ground platform leaves on_ground true and the vertical velocity 0.
C8_RestingStaysGrounded ==
    [][LET
           \* the character stands still on the ground: grounded, vertical velocity 0,
           \* its bottom edge at the top edge of a ground platform under it, no enemy
           \* in contact
           AtRestOnGround(e) ==
               /\ e.level.loaded
               /\ e.mario.on_ground
               /\ e.mario.vel[2] = 0
               /\ OverlappedEnemies(e) = {}
               /\ \E i \in DOMAIN e.level.platforms :
                     LET p == e.level.platforms[i].rect
                     IN  /\ e.level.platforms[i].collision
                         /\ e.level.platforms[i].type = "ground"
                         /\ Bottom(Box(e)) = p.y
                         /\ Box(e).x < Right(p)
                         /\ p.x < Right(Box(e))
       IN
       CollisionCall(call') /\ AtRestOnGround(call'.pre) =>
          mario'.on_ground /\ mario'.vel[2] = 0
    ]_vars

\* the character has zero velocity and its box overlaps no platform, no
\* unstruck block and no enemy
StationaryAndClear(e) ==
    /\ e.mario.vel = <<0, 0>>
    /\ OverlappedPlatforms(e) = {}
    /\ OverlappedBlocks(e) = {}
    /\ OverlappedEnemies(e) = {}

\* C9: a check_collisions call on a character with zero velocity that
\* overlaps nothing leaves position, velocity, score, coins, lives and the
\* level (its blocks and enemies) as the call found them; the state after
\* the call satisfies the same condition, so this holds for any number of
\* calls in a row.
C9_StationaryClearUnchanged ==
    [][CollisionCall(call') /\ StationaryAndClear(call'.pre) =>
          /\ mario'.pos = call'.pre.mario.pos
          /\ mario'.vel = call'.pre.mario.vel
          /\ score' = score
          /\ coins' = coins
          /\ lives' = lives
          /\ current_level_data' = current_level_data
          /\ StationaryAndClear(Eng')]_vars

\* a second check_collisions call in a row on a character standing still on
\* the ground (the first has cleared on_ground) left it where it was
C9_Witness ==
    /\ call.name = "check_collisions"
    /\ budget.calls = 0
    /\ call.pre.level.loaded
    /\ StationaryAndClear(call.pre)
    /\ ~call.pre.mario.on_ground
    /\ call.pre.mario.pos[2] = StandingOn(GROUND_Y, call.pre.mario.power)
    /\ mario = call.pre.mario

\* the i-th block of the level is an unstruck question block holding a coin
\* that the rising character overlaps
RisingIntoCoinBlock(e, i) ==
    /\ e.level.loaded
    /\ e.mario.vel[2] < 0
    /\ i \in OverlappedBlocks(e)
    /\ e.level.blocks[i].type = "question"
    /\ e.level.blocks[i].contains = "coin"

Struck(i) ==
    /\ current_level_data.loaded
    /\ i \in DOMAIN current_level_data.blocks
    /\ current_level_data.blocks[i].hit

\* C10 as stated: one check_collisions call on a rising character that
\* overlaps an unstruck coin question block marks the block struck, adds 1
\* to coins and 200 to score and leaves the vertical velocity at 1.
C10_CoinBlockStruck ==
    [][CollisionCall(call') => \A b \in DOMAIN call'.pre.level.blocks :
          RisingIntoCoinBlock(call'.pre, b) =>
              /\ Struck(b)'
              /\ coins' = coins + 1
              /\ score' = score + 200
              /\ mario'.vel[2] = BLOCK_BOUNCE]_vars

\* C10, amended: when moreover the character overlaps no platform and no
\* enemy and the block is the first unstruck block of the level's list that
\* it overlaps, the call marks the block struck, adds 1 to coins and 200 to
\* score and leaves the vertical velocity at 1.
C10_FirstCoinBlockStruck ==
    [][CollisionCall(call') => \A b \in DOMAIN call'.pre.level.blocks :
          (/\ RisingIntoCoinBlock(call'.pre, b)
           /\ OverlappedPlatforms(call'.pre) = {}
           /\ OverlappedEnemies(call'.pre) = {}
           /\ \A j \in OverlappedBlocks(call'.pre) : b <= j) =>
              /\ Struck(b)'
              /\ coins' = coins + 1
              /\ score' = score + 200
              /\ mario'.vel[2] = BLOCK_BOUNCE]_vars

\* a rising character struck the first coin block it overlapped
C10_Witness ==
    /\ CollisionCall(call)
    /\ \E b \in DOMAIN call.pre.level.blocks :
          /\ RisingIntoCoinBlock(call.pre, b)
          /\ OverlappedPlatforms(call.pre) = {}
          /\ OverlappedEnemies(call.pre) = {}
          /\ \A j \in OverlappedBlocks(call.pre) : b <= j
          /\ Struck(b)
    /\ coins = call.pre.coins + 1
    /\ score = call.pre.score + 200
    /\ mario.vel[2] = BLOCK_BOUNCE

\* the struck blocks the character's box overlaps
OverlappedStruckBlocks(e) ==
    {i \in DOMAIN e.level.blocks :
        e.level.blocks[i].hit /\ Overlaps(Box(e), e.level.blocks[i].rect)}

\* C11: in a step that does not replace the level a struck block stays
\* struck; a collision pass on a rising character whose box overlaps struck
\* blocks only (no unstruck block, platform or enemy) awards nothing and
\* leaves position and velocity as it found them; and hit_block called on a
\* struck block changes nothing.
C11_StruckBlocksStayInert ==
    [][LET
           Awards == <<coins, score, mario.power, mario.invincible>>
           \* the calls of hit_block of a step made on a block that was struck already
           StruckAgain(log) ==
               {i \in DOMAIN log : log[i].op = "hit_block" /\ log[i].was_hit}
       IN
       /\ ~Resets(call') =>
            \A i \in DOMAIN current_level_data.blocks :
                current_level_data.blocks[i].hit => Struck(i)'
       /\ (/\ CollisionCall(call')
           /\ call'.pre.mario.vel[2] < 0
           /\ OverlappedStruckBlocks(call'.pre) # {}
           /\ OverlappedBlocks(call'.pre) = {}
           /\ OverlappedPlatforms(call'.pre) = {}
           /\ OverlappedEnemies(call'.pre) = {}) =>
              /\ Awards' = Awards
              /\ mario'.pos = call'.pre.mario.pos
              /\ mario'.vel = call'.pre.mario.vel
       /\ StruckAgain(call'.log) # {} =>
              /\ Awards' = Awards
              /\ UNCHANGED <<mario, current_level_data, particles, lives>>
    ]_vars

\* a rising character passed through a struck star block: no bounce, no
\* invincibility, the block still struck
C11_Witness ==
    /\ call.name = "update_mario_physics"
    /\ call.pre.mario.vel[2] < 0
    /\ 3 \in OverlappedStruckBlocks(call.pre)
    /\ call.pre.level.blocks[3].contains = "star"
    /\ OverlappedBlocks(call.pre) = {}
    /\ Struck(3)
    /\ mario.vel[2] < 0
    /\ mario.invincible = call.pre.mario.invincible

\* C13 as stated: in one check_collisions call, with the timer above 0 every
\* overlapped enemy is removed, each for 100 points, and the character takes
\* no damage; with the timer at 0 a single overlapped enemy is removed for
\* 100 points with the bounce -8 when the character falls with its bottom
\* above the enemy's center, and otherwise damage_mario is called; and in a
\* step that does not replace the level no enemy is added.
C13_EachOverlappedEnemyHandled ==
    [][LET
           \* no unstruck block or platform is overlapped, so that the timer and the
           \* velocity the enemy loop finds are those of e
           OnlyEnemiesOverlapped(e) ==
               /\ e.level.loaded
               /\ OverlappedBlocks(e) = {}
               /\ OverlappedPlatforms(e) = {}
           \* the enemies of the engine's level that the box of e overlapped
           OverlappedEnemySet(e) == {e.level.enemies[i] : i \in OverlappedEnemies(e)}
           Range(seq) == {seq[i] : i \in DOMAIN seq}
       IN
       /\ (CollisionCall(call') /\ OnlyEnemiesOverlapped(call'.pre)) =>
            LET pre == call'.pre
                met == OverlappedEnemySet(pre)
            IN  /\ pre.mario.invincible > 0 =>
                    /\ Range(current_level_data'.enemies) = Range(pre.level.enemies) \ met
                    /\ score' = score + ENEMY_SCORE * Cardinality(met)
                    /\ lives' = lives
                    /\ mario'.power = mario.power
                    /\ \A k \in DOMAIN call'.log : call'.log[k].op # "damage_mario"
                /\ (pre.mario.invincible = 0 /\ Cardinality(met) = 1) =>
                    IF \A en \in met : IsStomp(pre.mario, Box(pre), EnemyRect(en))
                    THEN /\ Range(current_level_data'.enemies) = Range(pre.level.enemies) \ met
                         /\ score' = score + ENEMY_SCORE
                         /\ mario'.vel[2] = STOMP_BOUNCE
                         /\ lives' = lives
                    ELSE \E k \in DOMAIN call'.log : call'.log[k].op = "damage_mario"
       /\ (~Resets(call') /\ state' = state) =>
            Range(current_level_data'.enemies) \subseteq Range(current_level_data.enemies)
    ]_vars

\* the calls of damage_mario of a step that found the tier Small and the
\* timer at 0: the life losses
LifeLosses(log) ==
    {k \in DOMAIN log : /\ log[k].op = "damage_mario"
                        /\ log[k].power = "SMALL"
                        /\ log[k].invincible = 0}

\* C14: a life loss that leaves lives at 0 (or below) is not followed by
\* reset_level and the step ends in GAME_OVER; a life loss that leaves lives
\* above 0 is followed at once by reset_level, and the step ends with a
\* generated layout, the character at (100, 400) with zero velocity, timer
\* 0 and tier Small, as before the loss.
C14_LifeLossEndsOrRespawns ==
    [][LET
           ResetFollows(log, k) == k + 1 \in DOMAIN log /\ log[k + 1].op = "reset_level"
       IN
       \A k \in LifeLosses(call'.log) :
          IF call'.log[k].lives - 1 <= 0
          THEN /\ state' = "GAME_OVER"
               /\ ~ResetFollows(call'.log, k)
          ELSE /\ ResetFollows(call'.log, k)
               /\ current_level_data' \in Layouts
               /\ mario'.pos = <<Px(100), Px(400)>>
               /\ mario'.vel = <<0, 0>>
               /\ mario'.invincible = 0
               /\ mario'.power = "SMALL"
    ]_vars

\* a life was lost away from the spawn point with lives to spare: the
\* character is back at the spawn point
C14_Witness ==
    /\ CollisionCall(call)
    /\ call.pre.mario.pos # <<Px(100), Px(400)>>
    /\ \E k \in LifeLosses(call.log) : call.log[k].lives = 3
    /\ lives = 2
    /\ state = "LEVEL"
    /\ mario.pos = <<Px(100), Px(400)>>
    /\ mario.vel = <<0, 0>>

RECURSIVE BurstsFrom(_, _)
BurstsFrom(log, k) ==
    LET
        \* the particles the burst of one logged event asks for
        BurstOf(entry) ==
            CASE entry.op = "hit_block" ->
                   IF entry.type = "question" /\ ~entry.was_hit
                   THEN CASE entry.contains = "coin" -> 10
                          [] entry.contains \in {"mushroom", "flower"} -> 15
                          [] entry.contains = "star" -> 20
                          [] OTHER -> 0
                   ELSE 0
              [] entry.op = "destroy" -> 20
              [] entry.op = "stomp" -> 15
              [] entry.op = "damage_mario" ->
                   IF entry.power # "SMALL" /\ entry.invincible = 0 THEN 20 ELSE 0
              [] OTHER -> 0
    IN
    IF k > Len(log) THEN 0 ELSE BurstOf(log[k]) + BurstsFrom(log, k + 1)

\* C16 as stated: a check_collisions call leaves the particle population as
\* it was.
C16_CollisionsLeaveParticles ==
    [][CollisionCall(call') => particles' = particles]_vars

\* C16, amended: a check_collisions call never removes or alters a particle;
\* it appends, up to the cap, the bursts of its events: 10 for a coin, 15
\* for a mushroom or flower, 20 for a star, 20 for an enemy destroyed while
\* invincible, 15 for a stomp, 20 for damage above Small; with none of these
\* the population is as it was.
C16_CollisionsOnlyAppendBursts ==
    [][CollisionCall(call') =>
          /\ Len(particles') >= Len(particles)
          /\ SubSeq(particles', 1, Len(particles)) = particles
          /\ NumParticles(particles') =
                Min(photon_limit, NumParticles(particles) + BurstsFrom(call'.log, 1))
          /\ BurstsFrom(call'.log, 1) = 0 => particles' = particles]_vars

\* a call made with particles alive struck a coin block: the 10 particles of
\* its burst follow the earlier ones
C16_Witness ==
    /\ CollisionCall(call)
    /\ call.pre.particles # <<>>
    /\ \E k \in DOMAIN call.log :
          /\ call.log[k].op = "hit_block"
          /\ call.log[k].contains = "coin"
          /\ ~call.log[k].was_hit
    /\ BurstsFrom(call.log, 1) = 10
    /\ NumParticles(particles) = NumParticles(call.pre.particles) + 10

\* C25 as stated: in handle_input and in an update_mario_physics call that
\* meets no platform, the horizontal velocity moves toward the target speed
\* of the keys held (run or walk speed, signed by the direction, 0 with no
\* direction) by at most 0.3 and not beyond it
C25_VxStepsTowardTarget ==
    [][LET
           speed == IF "run" \in keys' THEN MARIO_RUN_SPEED ELSE MARIO_WALK_SPEED
           target == IF "left" \in keys' THEN -speed
                     ELSE IF "right" \in keys' THEN speed
                     ELSE 0
       IN
       (/\ \/ call'.name = "handle_input" /\ "pause" \notin keys'
           \/ /\ call'.name = "update_mario_physics"
              /\ call'.log = <<>>
              /\ call'.pre.level.loaded => OverlappedPlatforms(call'.pre) = {}
        /\ state = "LEVEL"
        /\ ~paused) =>
          /\ Abs(mario'.vel[1] - mario.vel[1]) <= MARIO_ACCELERATION
          /\ \/ mario.vel[1] <= mario'.vel[1] /\ mario'.vel[1] <= target
             \/ target <= mario'.vel[1] /\ mario'.vel[1] <= mario.vel[1]
             \/ mario'.vel[1] = mario.vel[1]
    ]_vars

\* C27 as stated: the lives counter is never negative: no operation that
\* finds the game in play with a life left takes the counter below 0
C27_LivesNeverNegative ==
    [][(state = "LEVEL" /\ lives > 0) => lives' >= 0]_vars

\* C28 as stated: a check_collisions call that finds the timer above 0 leaves
\* in the level no enemy whose hitbox overlaps the box the call tested
C28_InvincibleRemovesEveryOverlapped ==
    [][(/\ CollisionCall(call')
        /\ call'.pre.level.loaded
        /\ call'.pre.mario.invincible > 0
        /\ ~Resets(call')
        /\ state' = state) =>
          \A i \in DOMAIN current_level_data'.enemies :
             ~Overlaps(Box(call'.pre), EnemyRect(current_level_data'.enemies[i]))
    ]_vars

\* C29 as stated: an update_mario_physics call that loses no life moves the
\* character's x by at most 8.0
C29_XMovesByAtMostMaxSpeed ==
    [][(call'.name = "update_mario_physics" /\ LifeLosses(call'.log) = {}) =>
          Abs(mario'.pos[1] - mario.pos[1]) <= Px(8)
    ]_vars

(***************************************************************************)
(* Claims about the level generators (checked under GenSpec)               *)
(***************************************************************************)
\* C18: every layout a level generator returns, whatever the archetype,
\* holds an 'exit' entry that is not None, at the fixed far-right position
\* (4800, 400).
C18_LayoutHasExit ==
    LET
        \* the layout has an 'exit' entry and it is not None
        HasExit(level) == "exit" \in DOMAIN level /\ level.exit # NoExit
        \* a generate_level call that returned a layout
        Returned == call.name = "generate_level" /\ ~Raised(call.result)
    IN
    Returned => /\ HasExit(call.result)
                /\ call.result.exit.pos = LevelExit.pos

\* the ways an argument of SMB3Engine.generate_level can be out of range
UndefinedWorld(args) == args.world_num \notin DOMAIN worlds

SMB3GenerateCall == IsSMB3 /\ call.name = "generate_level"

\* C19: SMB3Engine.generate_level called with a world index that is not
\* defined, a level index the world does not define, or a level whose type
\* is not a recognised one, does not fail: it returns the layout of the
\* standard generator.
C19_MalformedFallsBack ==
    LET
        \* what the standard generator returns on the same draws, with its zones
        BaselineLayout(args) ==
            With(SMB3_generate_standard_level(args.world_num, args.draws),
                 "photonic_zones", add_photonic_zones("standard", args.draws))
        UnrecognisedType(args) ==
            LET
                \* the types the dispatch of generate_level names
                RecognisedTypes ==
                    {"standard", "water", "underwater", "fortress", "castle", "airship",
                     "giant", "ice", "pipes", "desert", "clouds", "sky", "tanks",
                     "battleships", "final_castle"} \cup PyramidTypes
            IN
            /\ ~UndefinedWorld(args)
            /\ LevelInfoOf(args.world_num, args.level_num).type \notin RecognisedTypes
        UndefinedLevel(args) ==
            /\ ~UndefinedWorld(args)
            /\ ~LevelDefined(args.world_num, args.level_num)
    IN
    (/\ SMB3GenerateCall
     /\ \/ UndefinedWorld(call.args)
        \/ UndefinedLevel(call.args)
        \/ UnrecognisedType(call.args))
    => /\ ~Raised(call.result)
       /\ call.result = BaselineLayout(call.args)

\* C20: the giant generator maps every rect of the standard layout on the
\* same draws, of the platforms, blocks and pipes, to
\* (2x, (y - 300) * 2 + 300, 2w, 2h), and every enemy position to
\* (2x, (y - 300) * 2 + 300); the platform (200, 400, 100, 20) becomes
\* (400, 500, 200, 40).
C20_GiantScalesEverything ==
    LET
        \* a call that the dispatch sent to the giant generator
        GiantCall ==
            /\ SMB3GenerateCall
            /\ ~UndefinedWorld(call.args)
            /\ Generator(LevelInfoOf(call.args.world_num, call.args.level_num).type) = "giant"
    IN
    GiantCall =>
        LET base == SMB3_generate_standard_level(call.args.world_num, call.args.draws)
            giant == call.result
        IN  /\ GiantRect(Rect(200, 400, 100, 20)) = Rect(400, 500, 200, 40)
            /\ \A i \in DOMAIN base.platforms :
                 giant.platforms[i].rect = GiantRect(base.platforms[i].rect)
            /\ \A i \in DOMAIN base.blocks :
                 giant.blocks[i].rect = GiantRect(base.blocks[i].rect)
            /\ \A i \in DOMAIN base.enemies :
                 giant.enemies[i].pos = GiantEnemy(base.enemies[i]).pos
            /\ \A i \in DOMAIN base.pipes :
                 giant.pipes[i].rect = GiantRect(base.pipes[i].rect)

\* C30 as stated: every enemy a generator of SMB3Engine places carries pos,
\* vel and type, and update_enemy on it completes without error
C30_UpdateEnemyCompletes ==
    /\ (IsSMB3 /\ call.name = "generate_level" /\ ~Raised(call.result)) =>
          \A i \in DOMAIN call.result.enemies :
             {"pos", "vel", "type"} \subseteq DOMAIN call.result.enemies[i]
    /\ call.name = "update_enemy" => ~Raised(call.result)

(***************************************************************************)
(* Claims about the loop of run (checked under Spec)                       *)
(***************************************************************************)
\* C15 as stated: the steps of a tick that finds the pause flag set leave
\* the character, the counters, the level and the particles as they were.
C15_PausedTickChangesNothing ==
    [][LET
           \* the tick under way found the pause flag set after its events: the update
           \* phase is skipped and render is about to run
           PausedTick == state = "LEVEL" /\ paused /\ pc = "render" /\ call.name = "events"
       IN
       PausedTick =>
          UNCHANGED <<mario, lives, score, coins, time, current_level_data,
                      particles>>
    ]_vars

\* C26 as stated: a tick that finds the game paused and gets a press of the
\* pause key ends with the game resumed
C26_PausePressResumes ==
    [][(/\ call'.name = "render"
        /\ call.name = "events"
        /\ state = "LEVEL"
        /\ paused
        /\ \E i \in DOMAIN call.log : /\ call.log[i].op = "keydown"
                                     /\ "pause" \in call.log[i].keys) =>
          ~paused'
    ]_vars

(***************************************************************************)
(* Claims about the loop of SMB3Engine.run (checked under SMB3Spec)        *)
(***************************************************************************)
\* C12: a step changes the character's power tier only if it holds a block
\* pickup (the first strike of a mushroom or flower block) or a damage event
\* at a tier above Small; every other operation, key events included,
\* leaves the tier as it was.
C12_TierChangesOnlyByPickupOrDamage ==
    [][LET
           \* the first strikes of a mushroom or flower block of a step
           PowerPickups(log) ==
               {i \in DOMAIN log : /\ log[i].op = "hit_block"
                                   /\ log[i].type = "question"
                                   /\ ~log[i].was_hit
                                   /\ log[i].contains \in {"mushroom", "flower"}}
       IN
       mario'.power # mario.power =>
          \/ PowerPickups(call'.log) # {}
          \/ Demotions(call'.log) # {}
    ]_vars

\* C17: at the end of every physics update in a level the character's x is
\* at least 0, the level's left bound.
C17_XAtLeastLeftBound ==
    (call.name = "update" /\ call.pre.state = "LEVEL") => mario.pos[1] >= 0

(***************************************************************************)
(* Claims about the ticks of play (checked under PlaySpec)                 *)
(***************************************************************************)
\* C22 as stated: handle_input changes the vertical velocity (the jump
\* impulse) only with the jump key held, the character on the ground and, in
\* MarioForeverEngine, the jumping flag clear, and only as the first impulse
\* since the jump key was last up
C22_OneImpulsePerPress ==
    [][(call'.name = "handle_input" /\ mario'.vel[2] # mario.vel[2]) =>
          /\ (IF IsSMB3 THEN "space" ELSE "jump") \in keys'
          /\ mario.on_ground
          /\ "jumping" \in DOMAIN mario => ~mario.jumping
          /\ call'.jumps = 1
    ]_vars

C24_VyAtMostMaxFall ==
    mario.vel[2] <= IF IsSMB3 THEN Px(15) ELSE Px(12)

\* SMB3Engine after a fall long enough for the clamp to have cut the speed
C24_Witness ==
    /\ IsSMB3
    /\ call.name = "update"
    /\ call.pre.mario.vel[2] = Px(15)
    /\ ~call.pre.mario.on_ground
    /\ mario.vel[2] = Px(15)

====
